---- MODULE Spec2Model ----
(***************************************************************************)
(* Model of the peer-to-peer file-transfer engine (FileTransferManager).   *)
(* Two managers are modelled: the sending one and the receiving one.       *)
(* The repository holds two variants of the class:                         *)
(*   "stream" : src/services/webrtcService.ts (flow-controlled streaming)  *)
(*   "ack"    : src/unnamed/part_001 (per-chunk acknowledgement + timers)  *)
(* `mode` selects the variant for a whole behaviour.                       *)
(*                                                                         *)
(* JavaScript runs every handler to its next `await` without interruption, *)
(* so each action is one such run: a public call, a delivered message, a   *)
(* fired timer, or the continuation of a suspended async function.         *)
(* Suspended functions are the records in stasks (sender) and rtasks       *)
(* (receiver); consecutive awaits with no access to shared state between   *)
(* them (read + encrypt, checksum + encrypt, blob read + checksum) are one *)
(* suspension point.  Records of identical suspended calls coincide,      *)
(* except those of reconstructFile, which are numbered.                    *)
(*                                                                         *)
(* The data channel is ordered and reliable (toPeer, fromPeer are queues). *)
(* The environment may in addition deliver again, at any later time and    *)
(* possibly with altered bytes, a message that was sent before; faults     *)
(* counts these deliveries.                                                *)
(***************************************************************************)
EXTENDS Integers, Sequences, FiniteSets, TLC

\* ---------------------------------------------------------------- bounds
MaxFiles == 2          \* files the application submits during a behaviour
MaxFaults == 1         \* late or altered re-deliveries by the channel
MaxTx == 3             \* chunk transmissions (first sends and re-sends) in a behaviour
MaxConns == 3          \* WebSocket connections the signaling server accepts

\* ------------------------------------------------------ program constants
chunkSize == 65536
HIGH_WATER_MARK == 15728640
LOW_WATER_MARK == 8388608

\* Sizes (bytes) of the files the application submits, by submission rank.
FileSizes == <<65537, 65536, 0>>

\* The same files with the zero-byte file submitted second.
FileSizesZeroByteSecond == <<65537, 0, 65536>>

FileIds == 1..MaxFiles

\* The file ids of a behaviour in which the application submits one more
\* file behind those of its first call.
QueueFileIds == 1..(MaxFiles + 1)

\* file.size of the files of this session, by submission rank; an input
\* that stays the same during a behaviour.
VARIABLE fileSizes

FileSize(f) == fileSizes[((f - 1) % Len(fileSizes)) + 1]

\* Math.ceil(size / chunkSize)
ChunkCount(size) == (size + chunkSize - 1) \div chunkSize

TotalChunks(f) == ChunkCount(FileSize(f))

\* Largest chunk count among the files of a behaviour.
MaxTotal == ChunkCount(FileSizes[1])
ChunkIdx == 0..(MaxTotal - 1)

\* Bytes are abstracted to one token per chunk-sized slice, so that byte
\* sequences are sequences of tokens and concatenation is \o.
\* Plaintext of chunk i of file f: file.slice(i*chunkSize, (i+1)*chunkSize).
ChunkData(f, i) == << <<f, i>> >>

RECURSIVE Concat(_)
\* new Blob(parts): the concatenation of the parts in order.
Concat(parts) == IF parts = <<>> THEN <<>> ELSE Head(parts) \o Concat(Tail(parts))

\* Whole plaintext of file f.
FileBytes(f) == Concat([k \in 1..TotalChunks(f) |-> ChunkData(f, k - 1)])

\* calculateSHA256: a collision-free digest of its argument.
calculateSHA256(bytes) == <<"sha256", bytes>>

\* EncryptionPipeline.encrypt: nonce || ciphertext || tag of the plaintext.
encrypt(plain) == [ct |-> plain, tag |-> TRUE]

\* A frame whose bytes were altered in transit: the tag no longer verifies.
Altered(frame) == [frame EXCEPT !.tag = FALSE]

Null == <<>>

\* EncryptionPipeline.decrypt: plaintext, or null on tag mismatch.
decrypt(frame) == IF frame.tag THEN frame.ct ELSE Null

VARIABLES
    mode,                 \* "stream" or "ack": which variant of the class runs
    \* ---- sending manager
    encryptionPipeline,   \* BOOLEAN: setEncryptionPipeline was called
    dataChannel,          \* "null", "connecting", "open" or "closed"
    filesToSend,          \* Seq(FileIds)
    sendingFileState,     \* record, fileId = 0 stands for null
    isPaused,
    stasks,               \* suspended async calls of the sender
    timers,               \* live retransmission timers (ack variant)
    bufferedAmount,       \* 0: <= LOW, 1: between, 2: > HIGH_WATER_MARK
    calls,                \* sizes of the file lists passed to sendFiles so far
    \* ---- channel
    toPeer,               \* queue of messages in flight, sender -> receiver
    fromPeer,             \* queue of messages in flight, receiver -> sender
    wire,                 \* every message the sender has put on the channel
    faults,               \* number of re-deliveries so far
    lastTx,               \* last chunk put on the channel; n counts the transmissions
    \* ---- receiving manager
    peerEncryptionPipeline,
    receivingFiles,       \* fileId -> generation of its IncomingTransfer, 0 = absent
    objs,                 \* objs[f][g]: the g-th ReceivingFileState allocated for f
    awaitingChunkDataFor, \* chunk-metadata payload or Null
    rtasks,               \* suspended async calls of the receiver
    \* ---- observable events
    fileReceived,         \* onFileReceived events: [fileId, blob]
    lastStatus             \* the last error/success/cancel onStatusUpdate event

svars == <<encryptionPipeline, dataChannel, filesToSend, sendingFileState,
           isPaused, stasks, timers, bufferedAmount, calls>>
cvars == <<toPeer, fromPeer, wire, faults, lastTx>>
rvars == <<peerEncryptionPipeline, receivingFiles, objs,
           awaitingChunkDataFor, rtasks, fileReceived>>

\* ---- signaling server (src/server/index.js)
VARIABLES
    rooms,                \* the rooms Map: room id -> its Set, in insertion order
    wsRoomId,             \* ws.roomId of each connection, NoRoom when unset
    readyState,           \* "idle" (not yet connected), "open", "errored", "closed"
    outbox                \* what the last handler sent to each connection, in order

sigvars == <<rooms, wsRoomId, readyState, outbox>>
ftvars == <<mode, fileSizes, svars, cvars, rvars, lastStatus>>

\* ---- the page of each peer (src/components/FileTransferPage.tsx)
VARIABLE
    pages                 \* per connection: inbox, keyPair, derived, joinSent

vars == <<mode, fileSizes, svars, cvars, rvars, lastStatus, sigvars, pages>>

Conns == 1..MaxConns

\* Room identifiers clients provide or uuidv4() generates.
RoomIds == {"A", "B"}

\* A missing (falsy) roomId.
NoRoom == ""

\* A JSON envelope: type, payload.roomId and payload.initiator; the rest
\* of the payload is opaque to the server and left out.
Envelope(type, roomId, initiator) ==
    [type |-> type, roomId |-> roomId, initiator |-> initiator]

\* No handler has sent anything.
NothingSent == [c \in Conns |-> <<>>]

\* The page before it connects: no signaling message is waiting for its
\* handler, initialize() and deriveSharedSecret() have not been called and
\* join-room has not been sent.
NewPage == [inbox |-> <<>>, keyPair |-> "none", derived |-> "none", joinSent |-> FALSE]

\* The state of the signaling server when it starts listening.
InitServer ==
    /\ rooms = << >>
    /\ wsRoomId = [c \in Conns |-> NoRoom]
    /\ readyState = [c \in Conns |-> "idle"]
    /\ outbox = NothingSent

\* The status after emitting the events ev (at most one) on top of last.
Emitted(last, ev) == IF ev = {} THEN last ELSE CHOOSE e \in ev : TRUE

\* ------------------------------------------------------------ sender state
NoTimer == -1

NoState == [fileId |-> 0, totalChunks |-> 0, sentChunksCount |-> 0,
            acknowledgedChunks |-> <<>>]

\* The SendingFileState built by startNextFileTransfer for file f.
NewSendingFileState(f) ==
    [fileId |-> f, totalChunks |-> TotalChunks(f), sentChunksCount |-> 0,
     acknowledgedChunks |-> [k \in 1..TotalChunks(f) |-> FALSE]]

\* Variant of the search that returns the last unacknowledged index
\* (lastIndexOf), or -1.
IndexOfFalseLast(acked) ==
    IF \E k \in 1..Len(acked) : ~acked[k]
    THEN (CHOOSE k \in 1..Len(acked) :
              ~acked[k] /\ \A j \in (k + 1)..Len(acked) : acked[j]) - 1
    ELSE -1

\* acknowledgedChunks.indexOf(false): first unacknowledged index, or -1.
IndexOfFalse(acked) ==
    IF \E k \in 1..Len(acked) : ~acked[k]
    THEN (CHOOSE k \in 1..Len(acked) :
              ~acked[k] /\ \A j \in 1..(k - 1) : acked[j]) - 1
    ELSE -1

\* A suspended async call of the sender; pc is the await it is suspended at.
STask(kind, f, i, pc) == [kind |-> kind, fileId |-> f, chunkIndex |-> i, pc |-> pc]

NoFrame == [ct |-> Null, tag |-> FALSE]

Msg(type, f, i, total, sum, frame) ==
    [type |-> type, fileId |-> f, chunkIndex |-> i, totalChunks |-> total,
     checksum |-> sum, frame |-> frame]

\* file-metadata; checksum carries fullFileChecksum.
FileMetadataMsg(f) ==
    Msg("file-metadata", f, -1, TotalChunks(f), calculateSHA256(FileBytes(f)), NoFrame)

\* chunk-metadata; the streaming variant has no checksum field.
ChunkMetadataMsg(f, i) ==
    Msg("chunk-metadata", f, i, 0,
        IF mode = "ack" THEN calculateSHA256(ChunkData(f, i)) ELSE Null, NoFrame)

\* The binary frame of chunk i of file f.
BinaryMsg(f, i) == Msg("binary", f, i, 0, Null, encrypt(ChunkData(f, i)))

\* sendMessage: JSON control message, sent only when the channel is open.
sendMessage(chan, msg) == IF dataChannel = "open" THEN Append(chan, msg) ELSE chan

\* chunk-metadata then the frame: two adjacent statements of the sender.
SendChunkFrames(chan, f, i) ==
    IF dataChannel = "open"
    THEN chan \o <<ChunkMetadataMsg(f, i), BinaryMsg(f, i)>>
    ELSE chan

Sent(chan) == {chan[k] : k \in 1..Len(chan)}


\* ------------------------------------------------------------------- Init
\* The state after construction of the two managers, for a session whose
\* application will submit files of the given sizes.
InitFiles(sizes) ==
    /\ InitServer
    /\ pages = [c \in Conns |-> NewPage]
    /\ fileSizes = sizes
    /\ mode \in {"stream", "ack"}
    /\ encryptionPipeline = FALSE
    /\ dataChannel = "null"
    /\ filesToSend = <<>>
    /\ sendingFileState = NoState
    /\ isPaused = FALSE
    /\ stasks = {}
    /\ timers = {}
    /\ bufferedAmount = 0
    /\ calls = <<>>
    /\ toPeer = <<>>
    /\ fromPeer = <<>>
    /\ wire = {}
    /\ faults = 0
    /\ lastTx = [fileId |-> 0, chunkIndex |-> 0, n |-> 0]
    /\ peerEncryptionPipeline = FALSE
    /\ receivingFiles = [f \in QueueFileIds |-> 0]
    /\ objs = [f \in QueueFileIds |-> <<>>]
    /\ awaitingChunkDataFor = Null
    /\ rtasks = {}
    /\ fileReceived = {}
    /\ lastStatus = "none"

Init == InitFiles(FileSizes)

\* ================================================================ SENDER

\* The initiator's public-key handler of the page: setEncryptionPipeline
\* and setDataChannel are called in the same run, before any sendFiles.
setEncryptionPipeline ==
    /\ ~encryptionPipeline
    /\ encryptionPipeline' = TRUE
    /\ dataChannel' = "open"
    /\ UNCHANGED <<pages, sigvars, mode, fileSizes, filesToSend, sendingFileState, isPaused,
                   stasks, timers, bufferedAmount, calls, cvars, rvars, lastStatus>>

\* A timer whose id is still stored in retransmissionTimers of the current
\* sendingFileState has slot = the index it is stored at; every other live
\* timer (overwritten id, or id stored in a replaced state object) has
\* slot = NoTimer and can no longer be cleared.
Untracked(ts) == {[tm EXCEPT !.slot = NoTimer] : tm \in ts}

\* startNextFileTransfer up to its first await.  q is filesToSend on entry,
\* log the status events already emitted by the caller.
startNextFileTransfer(q, log) ==
    IF Len(q) = 0
    THEN /\ filesToSend' = q
         /\ sendingFileState' = NoState
         /\ timers' = Untracked(timers)
         /\ stasks' = stasks
         /\ lastStatus' = "success: All files have been sent"
    ELSE /\ filesToSend' = Tail(q)
         /\ stasks' = stasks \cup {STask("startNextFileTransfer", Head(q), 0, "checksum")}
         /\ lastStatus' = log
         /\ UNCHANGED <<sendingFileState, timers>>

RECURSIVE Submitted(_)
\* Number of files submitted by the calls cs; files are numbered in
\* submission order.
Submitted(cs) == IF cs = <<>> THEN 0 ELSE Head(cs) + Submitted(Tail(cs))

\* sendFiles(files): the application submits its next n files, of at most
\* limit files in the behaviour.
sendFilesOf(n, limit) ==
    LET files == [k \in 1..n |-> Submitted(calls) + k] IN
    /\ n >= 1
    /\ Submitted(calls) + n <= limit
    /\ dataChannel # "closed"
    /\ IF ~encryptionPipeline
       THEN /\ lastStatus' = "error: Encryption is not set up"
            /\ UNCHANGED <<filesToSend, sendingFileState, stasks, timers, calls>>
       ELSE /\ calls' = Append(calls, n)
            /\ IF sendingFileState.fileId = 0
               THEN startNextFileTransfer(files, lastStatus)
               ELSE /\ filesToSend' = files
                    /\ UNCHANGED <<sendingFileState, stasks, timers, lastStatus>>
    /\ UNCHANGED <<pages, sigvars, mode, fileSizes, encryptionPipeline, dataChannel, isPaused, bufferedAmount,
                   cvars, rvars>>

\* sendFiles without the test of encryptionPipeline.
sendFilesUnguarded(n) ==
    LET files == [k \in 1..n |-> Submitted(calls) + k] IN
    /\ n >= 1
    /\ Submitted(calls) + n <= MaxFiles
    /\ dataChannel # "closed"
    /\ calls' = Append(calls, n)
    /\ IF sendingFileState.fileId = 0
       THEN startNextFileTransfer(files, lastStatus)
       ELSE /\ filesToSend' = files
            /\ UNCHANGED <<sendingFileState, stasks, timers, lastStatus>>
    /\ UNCHANGED <<pages, sigvars, mode, fileSizes, encryptionPipeline, dataChannel, isPaused, bufferedAmount,
                   cvars, rvars>>

\* sendFiles(files) in a behaviour that submits MaxFiles files.
sendFiles(n) == sendFilesOf(n, MaxFiles)

\* dataChannel.bufferedAmount in bytes: a representative amount for each of
\* the three levels 0 (at or below LOW_WATER_MARK), 1 (between the
\* watermarks) and 2 (above HIGH_WATER_MARK).
Buffered(level) ==
    IF level = 0 THEN LOW_WATER_MARK
    ELSE IF level = 1 THEN HIGH_WATER_MARK
    ELSE HIGH_WATER_MARK + chunkSize

\* Variant of StreamAfterPause without the backpressure check.
StreamAfterPauseNoBackpressure(f, i, st, buffered) ==
    IF st.fileId # f THEN {}
    ELSE {STask("streamFile", f, i, "encrypt")}

\* streamFile, after the `while (isPaused)` loop of iteration i, up to its
\* next await: the cancellation check and the backpressure check.
StreamAfterPause(f, i, st, buffered) ==
    IF st.fileId # f THEN {}
    ELSE IF Buffered(buffered) > HIGH_WATER_MARK
         THEN {STask("streamFile", f, i, "bufferedamountlow")}
    ELSE {STask("streamFile", f, i, "encrypt")}

\* streamFile from the head of iteration i up to its next await.
StreamNext(f, i, st, buffered) ==
    IF i >= TotalChunks(f) THEN {}
    ELSE IF isPaused THEN {STask("streamFile", f, i, "paused")}
    ELSE StreamAfterPause(f, i, st, buffered)

\* Status emitted by the cancellation check of streamFile.
StreamCancelled(f, i, st) ==
    IF i < TotalChunks(f) /\ st.fileId # f
    THEN {"info: Transfer was cancelled"} ELSE {}

\* The call streamFile() itself: its guard, then iteration sentChunksCount.
streamFile(st) ==
    IF st.fileId = 0 \/ dataChannel = "null" \/ ~encryptionPipeline THEN {}
    ELSE StreamNext(st.fileId, st.sentChunksCount, st, bufferedAmount)

\* The call sendChunk(chunkIndex) up to its first await.
sendChunk(st, chunkIndex, paused) ==
    IF st.fileId = 0 \/ chunkIndex >= st.totalChunks \/ ~encryptionPipeline \/ paused
    THEN {}
    ELSE {STask("sendChunk", st.fileId, chunkIndex, "encrypt")}

\* Continuation of startNextFileTransfer once the chunks are read and the
\* whole-file checksum is computed.
StartResume(t) ==
    LET st == NewSendingFileState(t.fileId) IN
    /\ t \in stasks /\ t.kind = "startNextFileTransfer"
    /\ sendingFileState' = st
    /\ timers' = Untracked(timers)
    /\ toPeer' = sendMessage(toPeer, FileMetadataMsg(t.fileId))
    /\ wire' = wire \cup Sent(toPeer')
    /\ stasks' = (stasks \ {t}) \cup
                 (IF mode = "stream" THEN streamFile(st) ELSE sendChunk(st, 0, isPaused))
    /\ UNCHANGED <<pages, sigvars, mode, fileSizes, encryptionPipeline, dataChannel, filesToSend, isPaused,
                   bufferedAmount, calls, fromPeer, faults, lastTx, rvars, lastStatus>>

pause ==
    /\ dataChannel # "closed"
    /\ isPaused' = TRUE
    /\ timers' = IF mode = "ack" /\ sendingFileState.fileId # 0
                 THEN {tm \in timers : tm.slot = NoTimer}
                 ELSE timers
    /\ UNCHANGED <<pages, sigvars, mode, fileSizes, encryptionPipeline, dataChannel, filesToSend, sendingFileState,
                   stasks, bufferedAmount, calls, cvars, rvars, lastStatus>>

\* Variant of resume() that restarts the streaming loop by calling
\* streamFile() although the suspended loop continues by itself.
resumeRestartsStream ==
    /\ sendingFileState.fileId # 0 /\ isPaused
    /\ dataChannel # "closed"
    /\ isPaused' = FALSE
    /\ stasks' = stasks \cup
                 (IF dataChannel = "null" \/ ~encryptionPipeline
                     \/ sendingFileState.sentChunksCount >= sendingFileState.totalChunks
                  THEN {}
                  ELSE StreamAfterPause(sendingFileState.fileId,
                                        sendingFileState.sentChunksCount,
                                        sendingFileState, bufferedAmount))
    /\ UNCHANGED <<pages, sigvars, mode, fileSizes, encryptionPipeline, dataChannel, filesToSend, sendingFileState,
                   timers, bufferedAmount, calls, cvars, rvars, lastStatus>>

resume ==
    /\ sendingFileState.fileId # 0 /\ isPaused
    /\ dataChannel # "closed"
    /\ isPaused' = FALSE
    /\ stasks' = IF mode = "ack" /\ IndexOfFalse(sendingFileState.acknowledgedChunks) # -1
                 THEN stasks \cup sendChunk(sendingFileState,
                                 IndexOfFalse(sendingFileState.acknowledgedChunks), FALSE)
                 ELSE stasks
    /\ UNCHANGED <<pages, sigvars, mode, fileSizes, encryptionPipeline, dataChannel, filesToSend, sendingFileState,
                   timers, bufferedAmount, calls, cvars, rvars, lastStatus>>


\* ---- streaming variant

\* The 200 ms timeout of `while (this.isPaused)` elapses after resume().
StreamWake(t) ==
    /\ t \in stasks /\ t.kind = "streamFile" /\ t.pc = "paused"
    /\ ~isPaused
    /\ stasks' = (stasks \ {t}) \cup
                 StreamAfterPause(t.fileId, t.chunkIndex, sendingFileState, bufferedAmount)
    /\ lastStatus' = Emitted(lastStatus, StreamCancelled(t.fileId, t.chunkIndex, sendingFileState))
    /\ UNCHANGED <<pages, sigvars, mode, fileSizes, encryptionPipeline, dataChannel, filesToSend, sendingFileState,
                   isPaused, timers, bufferedAmount, calls, cvars, rvars>>

\* The transport drains its send buffer.  Falling to the threshold
\* (bufferedAmountLowThreshold = LOW_WATER_MARK) fires bufferedamountlow,
\* which resolves every waitForBufferToClear promise.
BufferDrain ==
    /\ bufferedAmount > 0
    /\ bufferedAmount' = bufferedAmount - 1
    /\ stasks' = IF Buffered(bufferedAmount') <= LOW_WATER_MARK
                 THEN {IF t.pc = "bufferedamountlow" THEN [t EXCEPT !.pc = "encrypt"] ELSE t
                          : t \in stasks}
                 ELSE stasks
    /\ UNCHANGED <<pages, sigvars, mode, fileSizes, encryptionPipeline, dataChannel, filesToSend, sendingFileState,
                   isPaused, timers, calls, cvars, rvars, lastStatus>>

\* streamFile continues after chunkBlob.arrayBuffer() and encrypt():
\* sends chunk-metadata and the frame, counts the chunk, and runs the loop
\* to its next await.  The send may push bufferedAmount over a watermark.
StreamSend(t, grow) ==
    LET f == t.fileId
        i == t.chunkIndex
        st == IF sendingFileState.fileId = 0 THEN sendingFileState
              ELSE [sendingFileState EXCEPT !.sentChunksCount = @ + 1]
        buffered == IF grow /\ bufferedAmount < 2 THEN bufferedAmount + 1 ELSE bufferedAmount
    IN
    /\ t \in stasks /\ t.kind = "streamFile" /\ t.pc = "encrypt"
    /\ IF dataChannel = "open"
       THEN /\ lastTx.n < MaxTx
            /\ toPeer' = SendChunkFrames(toPeer, f, i)
            /\ wire' = wire \cup Sent(toPeer')
            /\ lastTx' = [fileId |-> f, chunkIndex |-> i, n |-> lastTx.n + 1]
            /\ bufferedAmount' = buffered
            /\ sendingFileState' = st
            \* sendingFileState === null: the increment throws and the loop ends
            /\ stasks' = (stasks \ {t}) \cup
                         (IF sendingFileState.fileId = 0 THEN {}
                          ELSE StreamNext(f, i + 1, st, buffered))
            /\ lastStatus' = Emitted(lastStatus,
                                     IF sendingFileState.fileId = 0 \/ isPaused THEN {}
                                     ELSE StreamCancelled(f, i + 1, st))
       \* closed channel: sendMessage sends nothing, dataChannel.send throws
       \* and the loop ends
       ELSE /\ stasks' = stasks \ {t}
            /\ UNCHANGED <<toPeer, wire, lastTx, bufferedAmount, sendingFileState,
                           lastStatus>>
    /\ UNCHANGED <<pages, sigvars, mode, fileSizes, encryptionPipeline, dataChannel, filesToSend, isPaused,
                   timers, calls, fromPeer, faults, rvars>>

\* ---- acknowledged variant

\* sendChunk continues after calculateSHA256() and encrypt(): sends
\* chunk-metadata and the frame, arms the retransmission timer and stores
\* its id in retransmissionTimers[chunkIndex] of the current state.
SendChunkResume(t) ==
    LET f == t.fileId
        i == t.chunkIndex
    IN
    /\ t \in stasks /\ t.kind = "sendChunk"
    /\ stasks' = stasks \ {t}
    /\ IF dataChannel = "open"
       THEN /\ lastTx.n < MaxTx
            /\ toPeer' = SendChunkFrames(toPeer, f, i)
            /\ wire' = wire \cup Sent(toPeer')
            /\ lastTx' = [fileId |-> f, chunkIndex |-> i, n |-> lastTx.n + 1]
            /\ timers' = IF sendingFileState.fileId = 0
                         THEN timers \cup {[fileId |-> f, chunkIndex |-> i, slot |-> NoTimer]}
                         ELSE {IF tm.slot = i THEN [tm EXCEPT !.slot = NoTimer] ELSE tm
                                  : tm \in timers}
                              \cup {[fileId |-> f, chunkIndex |-> i, slot |-> i]}
       \* closed channel: dataChannel.send throws before the timer is armed
       ELSE UNCHANGED <<toPeer, wire, lastTx, timers>>
    /\ UNCHANGED <<pages, sigvars, mode, fileSizes, encryptionPipeline, dataChannel, filesToSend, sendingFileState,
                   isPaused, bufferedAmount, calls, fromPeer, faults, rvars, lastStatus>>

\* acknowledgedChunks[chunkIndex], undefined (falsy) outside the array.
Acked(st, i) == i + 1 \in DOMAIN st.acknowledgedChunks /\ st.acknowledgedChunks[i + 1]

\* The setTimeout callback armed by sendChunk, RETRANSMISSION_TIMEOUT later.
TimerFire(tm) ==
    /\ tm \in timers
    /\ timers' = timers \ {tm}
    /\ stasks' = IF sendingFileState.fileId = tm.fileId /\ ~Acked(sendingFileState, tm.chunkIndex)
                 THEN stasks \cup sendChunk(sendingFileState, tm.chunkIndex, isPaused)
                 ELSE stasks
    /\ UNCHANGED <<pages, sigvars, mode, fileSizes, encryptionPipeline, dataChannel, filesToSend, sendingFileState,
                   isPaused, bufferedAmount, calls, cvars, rvars, lastStatus>>

\* handleChunkAck(fileId, chunkIndex)
handleChunkAck(m) ==
    LET i == m.chunkIndex
        st == [sendingFileState EXCEPT !.acknowledgedChunks[i + 1] = TRUE]
        nextChunkIndex == IndexOfFalse(st.acknowledgedChunks)
    IN
    IF sendingFileState.fileId # m.fileId
    THEN UNCHANGED <<filesToSend, sendingFileState, stasks, timers, lastStatus>>
    ELSE /\ timers' = {tm \in timers : tm.slot # i}
         /\ sendingFileState' = st
         /\ stasks' = IF nextChunkIndex # -1 /\ ~isPaused
                      THEN stasks \cup sendChunk(st, nextChunkIndex, isPaused)
                      ELSE stasks
         /\ UNCHANGED <<filesToSend, lastStatus>>

\* sendChunk continues after encrypt() returned null: the error is
\* reported and the call returns.
SendChunkEncryptFails(t) ==
    /\ t \in stasks /\ t.kind = "sendChunk"
    /\ dataChannel = "open"
    /\ stasks' = stasks \ {t}
    /\ lastStatus' = "error: Encryption failed"
    /\ UNCHANGED <<pages, sigvars, mode, fileSizes, encryptionPipeline, dataChannel, filesToSend, sendingFileState,
                   isPaused, timers, bufferedAmount, calls, cvars, rvars>>

\* ---- both variants

\* The connection leaves the connected state (peer-left, cancel, ICE
\* failure, close): the data channel is closed and what is in flight is
\* lost.  The page makes no call into the FileTransferManager, and after it
\* the application makes no further sendFiles / pause / resume call.
disconnect ==
    /\ dataChannel = "open"
    /\ dataChannel' = "closed"
    /\ toPeer' = <<>>
    /\ fromPeer' = <<>>
    /\ bufferedAmount' = 0
    /\ UNCHANGED <<pages, sigvars, mode, fileSizes, encryptionPipeline, filesToSend, sendingFileState, isPaused,
                   stasks, timers, calls, wire, faults, lastTx, rvars, lastStatus>>

\* streamFile continues after encrypt() returned null: the error is
\* reported, webRTCManager.disconnect() closes the connection and the loop
\* returns.
StreamEncryptFails(t) ==
    /\ t \in stasks /\ t.kind = "streamFile" /\ t.pc = "encrypt"
    /\ dataChannel = "open"
    /\ stasks' = stasks \ {t}
    /\ lastStatus' = "error: Encryption failed"
    /\ dataChannel' = "closed"
    /\ toPeer' = <<>>
    /\ fromPeer' = <<>>
    /\ bufferedAmount' = 0
    /\ UNCHANGED <<pages, sigvars, mode, fileSizes, encryptionPipeline, filesToSend, sendingFileState, isPaused,
                   timers, calls, wire, faults, lastTx, rvars>>


\* handleFileReceivedAck(fileId)
handleFileReceivedAck(m) ==
    IF sendingFileState.fileId # m.fileId
    THEN UNCHANGED <<filesToSend, sendingFileState, stasks, timers, lastStatus>>
    ELSE startNextFileTransfer(filesToSend, "success: Peer confirmed receipt")

\* The sender's handleDataChannelMessage: the head of fromPeer is
\* delivered.  The streaming variant has no case for chunk-ack.
DeliverToSender ==
    LET m == Head(fromPeer) IN
    /\ fromPeer # <<>>
    /\ fromPeer' = Tail(fromPeer)
    /\ IF m.type = "file-received-ack" THEN handleFileReceivedAck(m)
       ELSE IF m.type = "chunk-ack" /\ mode = "ack" THEN handleChunkAck(m)
       ELSE UNCHANGED <<filesToSend, sendingFileState, stasks, timers, lastStatus>>
    /\ UNCHANGED <<pages, sigvars, mode, fileSizes, encryptionPipeline, dataChannel, isPaused, bufferedAmount,
                   calls, toPeer, wire, faults, lastTx, rvars>>

\* ============================================================== RECEIVER

RTask(kind, f, i, sum, frame, data, g) ==
    [kind |-> kind, fileId |-> f, chunkIndex |-> i, checksum |-> sum,
     frame |-> frame, data |-> data, gen |-> g]

peerSetEncryptionPipeline ==
    /\ ~peerEncryptionPipeline
    /\ peerEncryptionPipeline' = TRUE
    /\ UNCHANGED <<pages, sigvars, mode, fileSizes, svars, cvars, receivingFiles, objs, awaitingChunkDataFor,
                   rtasks, fileReceived, lastStatus>>

\* The ReceivingFileState allocated by handleFileMetadata.
NewReceivingFileState(metadata) ==
    [totalChunks |-> metadata.totalChunks,
     fullFileChecksum |-> metadata.checksum,
     chunks |-> [k \in 1..metadata.totalChunks |-> Null],
     receivedChunksCount |-> 0]

\* handleFileMetadata(metadata): a fresh state replaces the map entry.
handleFileMetadata(m) ==
    /\ objs' = [objs EXCEPT ![m.fileId] = Append(@, NewReceivingFileState(m))]
    /\ receivingFiles' = [receivingFiles EXCEPT ![m.fileId] = Len(objs[m.fileId]) + 1]
    /\ UNCHANGED <<awaitingChunkDataFor, rtasks>>

\* case 'chunk-metadata': this.awaitingChunkDataFor = message.payload
handleChunkMetadata(m) ==
    /\ awaitingChunkDataFor' =
          [fileId |-> m.fileId, chunkIndex |-> m.chunkIndex, checksum |-> m.checksum]
    /\ UNCHANGED <<receivingFiles, objs, rtasks>>

\* Variant of handleBinary that leaves the context pending after use.
handleBinaryKeepsContext(frame) ==
    LET ctx == awaitingChunkDataFor IN
    IF ctx # Null /\ peerEncryptionPipeline
    THEN /\ rtasks' = rtasks \cup
               {RTask("decrypt", ctx.fileId, ctx.chunkIndex, ctx.checksum, frame, Null, 0)}
         /\ UNCHANGED <<receivingFiles, objs, awaitingChunkDataFor>>
    ELSE UNCHANGED <<receivingFiles, objs, awaitingChunkDataFor, rtasks>>

\* A binary frame: with a pending context (and a pipeline) the context is
\* consumed and decrypt() awaited; otherwise the frame is discarded with a
\* console warning.
handleBinary(frame) ==
    LET ctx == awaitingChunkDataFor IN
    IF ctx # Null /\ peerEncryptionPipeline
    THEN /\ awaitingChunkDataFor' = Null
         /\ rtasks' = rtasks \cup
               {RTask("decrypt", ctx.fileId, ctx.chunkIndex, ctx.checksum, frame, Null, 0)}
         /\ UNCHANGED <<receivingFiles, objs>>
    ELSE UNCHANGED <<receivingFiles, objs, awaitingChunkDataFor, rtasks>>

\* The receiver's handleDataChannelMessage up to its first await, for a
\* message of the sender (acks are not addressed to the receiver).
handleDataChannelMessage(m) ==
    IF m.type = "binary" THEN handleBinary(m.frame)
    ELSE IF m.type = "file-metadata" THEN handleFileMetadata(m)
    ELSE handleChunkMetadata(m)

\* The head of toPeer is delivered to the receiver.
DeliverToPeer ==
    /\ toPeer # <<>>
    /\ toPeer' = Tail(toPeer)
    /\ handleDataChannelMessage(Head(toPeer))
    /\ UNCHANGED <<pages, sigvars, mode, fileSizes, svars, fromPeer, wire, faults, lastTx, peerEncryptionPipeline,
                   fileReceived, lastStatus>>

\* Channel fault: a message sent earlier is delivered once more, possibly
\* with altered bytes in a binary frame.
RedeliverToPeer(m, intact) ==
    /\ m \in wire
    /\ faults < MaxFaults
    /\ intact \/ m.type = "binary"
    /\ faults' = faults + 1
    /\ handleDataChannelMessage(IF intact THEN m ELSE [m EXCEPT !.frame = Altered(@)])
    /\ UNCHANGED <<pages, sigvars, mode, fileSizes, svars, toPeer, fromPeer, wire, lastTx, peerEncryptionPipeline,
                   fileReceived, lastStatus>>

\* The peer sends a chunk-metadata whose chunkIndex is not below the
\* totalChunks of its file: m as sent by the sender, with index i.
DeliverOutOfRange(m, i) ==
    /\ m \in wire /\ m.type = "chunk-metadata"
    /\ i >= TotalChunks(m.fileId)
    /\ faults < MaxFaults
    /\ faults' = faults + 1
    /\ handleDataChannelMessage([m EXCEPT !.chunkIndex = i])
    /\ UNCHANGED <<pages, sigvars, mode, fileSizes, svars, toPeer, fromPeer, wire, lastTx,
                   peerEncryptionPipeline, fileReceived, lastStatus>>

\* Variant of FillSlot without the emptiness test (last writer wins).
FillSlotOverwrite(fileState, chunkIndex, data) ==
    [fileState EXCEPT !.chunks[chunkIndex + 1] = data,
                      !.receivedChunksCount = @ + 1]

\* An array element that was never assigned (a hole): it reads as
\* undefined, which is falsy but is not null; in a Blob it is the text
\* "undefined".
Undefined == << <<0, 0>> >>

\* if (!fileState.chunks[chunkIndex]) { chunks[chunkIndex] = data; count++ }
\* An assignment at or beyond chunks.length extends the array, leaving
\* holes below the index.
FillSlot(fileState, chunkIndex, data) ==
    LET chunks == fileState.chunks IN
    IF chunkIndex + 1 \in DOMAIN chunks
    THEN IF chunks[chunkIndex + 1] \in {Null, Undefined}
         THEN [fileState EXCEPT !.chunks[chunkIndex + 1] = data,
                                !.receivedChunksCount = @ + 1]
         ELSE fileState
    ELSE [fileState EXCEPT
             !.chunks = chunks \o [k \in 1..(chunkIndex - Len(chunks)) |-> Undefined]
                               \o <<data>>,
             !.receivedChunksCount = @ + 1]

\* fileState.chunks.includes(null)
IncludesNull(fileState) == \E k \in DOMAIN fileState.chunks : fileState.chunks[k] = Null

\* The reconstructFile calls for file f that are suspended.
Reconstructing(f) == {u \in rtasks : u.kind = "reconstructFile" /\ u.fileId = f}

\* reconstructFile(fileId) up to its first await, on the map rf and the
\* states os: the continuation it leaves suspended, holding the blob.
\* Each call is a continuation of its own: the chunkIndex field of its
\* record numbers, from 0, the suspended calls that hold the same blob of
\* the same state.
reconstructFile(f, rf, os) ==
    IF rf[f] = 0 \/ IncludesNull(os[f][rf[f]]) THEN {}
    ELSE LET blob == Concat(os[f][rf[f]].chunks)
             same == {u \in Reconstructing(f) : u.data = blob /\ u.gen = rf[f]}
         IN {RTask("reconstructFile", f, Cardinality(same), Null, NoFrame, blob, rf[f])}

\* Suspended reconstructFile calls that differ in their number only do the
\* same when they resume; of these the one with the highest number is
\* taken to resume first.
ResumesFirst(t) ==
    \A u \in Reconstructing(t.fileId) :
        (u.data = t.data /\ u.gen = t.gen) => u.chunkIndex <= t.chunkIndex

\* Status emitted by the guard of reconstructFile.
ReconstructMissing(f, rf, os) ==
    IF rf[f] = 0 \/ IncludesNull(os[f][rf[f]])
    THEN {"error: File reconstruction failed: missing chunks"} ELSE {}

\* Variant of DecryptResume without the `if (decryptedData)` test: the
\* result of decrypt() is handed to handleChunkData even when it is null.
DecryptResumeNoNullTest(t) ==
    LET f == t.fileId
        i == t.chunkIndex
        data == decrypt(t.frame)
        g == receivingFiles[f]
        filled == [objs[f][g] EXCEPT !.chunks[i + 1] = data, !.receivedChunksCount = @ + 1]
        os == [objs EXCEPT ![f][g] = IF objs[f][g].chunks[i + 1] = Null THEN filled ELSE @]
    IN
    /\ t \in rtasks /\ t.kind = "decrypt"
    /\ rtasks' = rtasks \ {t}
    /\ objs' = IF g = 0 \/ mode = "ack" THEN objs ELSE os
    /\ UNCHANGED <<pages, sigvars, mode, fileSizes, svars, cvars, peerEncryptionPipeline, receivingFiles,
                   awaitingChunkDataFor, fileReceived, lastStatus>>

\* handleDataChannelMessage continues after decrypt(): on plaintext it
\* calls handleChunkData, which runs to its first await.
DecryptResume(t) ==
    LET f == t.fileId
        i == t.chunkIndex
        data == decrypt(t.frame)
        g == receivingFiles[f]
        filled == FillSlot(objs[f][g], i, data)
        os == [objs EXCEPT ![f][g] = filled]
    IN
    /\ t \in rtasks /\ t.kind = "decrypt"
    /\ IF data = Null
       THEN /\ lastStatus' = "error: Decryption failed"
            /\ rtasks' = rtasks \ {t}
            /\ UNCHANGED objs
       ELSE IF g = 0
       THEN /\ rtasks' = rtasks \ {t}
            /\ UNCHANGED <<objs, lastStatus>>
       ELSE IF mode = "ack"
       THEN /\ rtasks' = (rtasks \ {t}) \cup
                         {RTask("handleChunkData", f, i, t.checksum, t.frame, data, g)}
            /\ UNCHANGED <<objs, lastStatus>>
       ELSE /\ objs' = os
            /\ IF filled.receivedChunksCount = filled.totalChunks
               THEN /\ rtasks' = (rtasks \ {t}) \cup reconstructFile(f, receivingFiles, os)
                    /\ lastStatus' = Emitted(lastStatus, ReconstructMissing(f, receivingFiles, os))
               ELSE /\ rtasks' = rtasks \ {t}
                    /\ UNCHANGED lastStatus
    /\ UNCHANGED <<pages, sigvars, mode, fileSizes, svars, cvars, peerEncryptionPipeline, receivingFiles,
                   awaitingChunkDataFor, fileReceived>>

\* Variant of ChunkDataResume that sends the chunk-ack before comparing
\* the checksums.
ChunkDataResumeAckFirst(t) ==
    LET f == t.fileId
        i == t.chunkIndex
        filled == FillSlot(objs[f][t.gen], i, t.data)
        os == [objs EXCEPT ![f][t.gen] = filled]
    IN
    /\ t \in rtasks /\ t.kind = "handleChunkData"
    /\ fromPeer' = sendMessage(fromPeer, Msg("chunk-ack", f, i, 0, Null, NoFrame))
    /\ IF calculateSHA256(t.data) = t.checksum
       THEN /\ objs' = os
            /\ IF filled.receivedChunksCount = filled.totalChunks
               THEN /\ rtasks' = (rtasks \ {t}) \cup reconstructFile(f, receivingFiles, os)
                    /\ lastStatus' = Emitted(lastStatus, ReconstructMissing(f, receivingFiles, os))
               ELSE /\ rtasks' = rtasks \ {t}
                    /\ UNCHANGED lastStatus
       ELSE /\ lastStatus' = "error: Checksum mismatch for chunk"
            /\ rtasks' = rtasks \ {t}
            /\ UNCHANGED objs
    /\ UNCHANGED <<pages, sigvars, mode, fileSizes, svars, toPeer, wire, faults, lastTx, peerEncryptionPipeline,
                   receivingFiles, awaitingChunkDataFor, fileReceived>>

\* Acknowledged variant: handleChunkData continues after calculateSHA256().
ChunkDataResume(t) ==
    LET f == t.fileId
        i == t.chunkIndex
        filled == FillSlot(objs[f][t.gen], i, t.data)
        os == [objs EXCEPT ![f][t.gen] = filled]
    IN
    /\ t \in rtasks /\ t.kind = "handleChunkData"
    /\ IF calculateSHA256(t.data) = t.checksum
       THEN /\ objs' = os
            /\ fromPeer' = sendMessage(fromPeer, Msg("chunk-ack", f, i, 0, Null, NoFrame))
            /\ IF filled.receivedChunksCount = filled.totalChunks
               THEN /\ rtasks' = (rtasks \ {t}) \cup reconstructFile(f, receivingFiles, os)
                    /\ lastStatus' = Emitted(lastStatus, ReconstructMissing(f, receivingFiles, os))
               ELSE /\ rtasks' = rtasks \ {t}
                    /\ UNCHANGED lastStatus
       ELSE /\ lastStatus' = "error: Checksum mismatch for chunk"
            /\ rtasks' = rtasks \ {t}
            /\ UNCHANGED <<objs, fromPeer>>
    /\ UNCHANGED <<pages, sigvars, mode, fileSizes, svars, toPeer, wire, faults, lastTx, peerEncryptionPipeline,
                   receivingFiles, awaitingChunkDataFor, fileReceived>>

\* Variant of ReconstructResume that exposes the file without comparing
\* the recomputed checksum with the declared one.
ReconstructResumeUnchecked(t) ==
    /\ t \in rtasks /\ t.kind = "reconstructFile" /\ ResumesFirst(t)
    /\ rtasks' = rtasks \ {t}
    /\ fileReceived' = fileReceived \cup {[fileId |-> t.fileId, blob |-> t.data]}
    /\ fromPeer' = sendMessage(fromPeer, Msg("file-received-ack", t.fileId, -1, 0, Null, NoFrame))
    /\ receivingFiles' = [receivingFiles EXCEPT ![t.fileId] = 0]
    /\ UNCHANGED <<pages, sigvars, mode, fileSizes, svars, toPeer, wire, faults, lastTx, peerEncryptionPipeline,
                   objs, awaitingChunkDataFor, lastStatus>>

\* Variant of ReconstructResume with the comparison inverted (!== for ===).
ReconstructResumeInverted(t) ==
    /\ t \in rtasks /\ t.kind = "reconstructFile" /\ ResumesFirst(t)
    /\ rtasks' = rtasks \ {t}
    /\ IF calculateSHA256(t.data) # objs[t.fileId][t.gen].fullFileChecksum
       THEN /\ fileReceived' = fileReceived \cup {[fileId |-> t.fileId, blob |-> t.data]}
            /\ fromPeer' = sendMessage(fromPeer,
                                  Msg("file-received-ack", t.fileId, -1, 0, Null, NoFrame))
            /\ receivingFiles' = [receivingFiles EXCEPT ![t.fileId] = 0]
            /\ UNCHANGED lastStatus
       ELSE /\ lastStatus' = "error: Final file checksum mismatch"
            /\ UNCHANGED <<fileReceived, fromPeer, receivingFiles>>
    /\ UNCHANGED <<pages, sigvars, mode, fileSizes, svars, toPeer, wire, faults, lastTx, peerEncryptionPipeline,
                   objs, awaitingChunkDataFor>>

\* reconstructFile continues after fileBlob.arrayBuffer() and
\* calculateSHA256(): compares the checksum and, on a match, exposes the
\* file, acknowledges it and deletes the map entry of the file id.
ReconstructResume(t) ==
    LET f == t.fileId
        fileState == objs[f][t.gen]
    IN
    /\ t \in rtasks /\ t.kind = "reconstructFile" /\ ResumesFirst(t)
    /\ rtasks' = rtasks \ {t}
    /\ IF calculateSHA256(t.data) = fileState.fullFileChecksum
       THEN /\ fileReceived' = fileReceived \cup {[fileId |-> f, blob |-> t.data]}
            /\ fromPeer' = sendMessage(fromPeer, Msg("file-received-ack", f, -1, 0, Null, NoFrame))
            /\ receivingFiles' = [receivingFiles EXCEPT ![f] = 0]
            /\ UNCHANGED lastStatus
       ELSE /\ lastStatus' = "error: Final file checksum mismatch"
            /\ UNCHANGED <<fileReceived, fromPeer, receivingFiles>>
    /\ UNCHANGED <<pages, sigvars, mode, fileSizes, svars, toPeer, wire, faults, lastTx, peerEncryptionPipeline,
                   objs, awaitingChunkDataFor>>

\* =================================================================== Next
Next ==
    \/ setEncryptionPipeline
    \/ \E n \in 1..MaxFiles : sendFiles(n)
    \/ pause
    \/ resume
    \/ \E t \in stasks : StartResume(t)
    \/ \E t \in stasks : StreamWake(t)
    \/ BufferDrain
    \/ \E t \in stasks, grow \in BOOLEAN : StreamSend(t, grow)
    \/ \E t \in stasks : SendChunkResume(t)
    \/ \E tm \in timers : TimerFire(tm)
    \/ DeliverToSender
    \/ peerSetEncryptionPipeline
    \/ DeliverToPeer
    \/ \E t \in rtasks : DecryptResume(t)
    \/ \E t \in rtasks : ChunkDataResume(t)
    \/ \E t \in rtasks : ReconstructResume(t)
    \/ disconnect
    \/ \E t \in stasks : StreamEncryptFails(t)
    \/ \E t \in stasks : SendChunkEncryptFails(t)

Spec == Init /\ [][Next]_vars

\* The engine on an unreliable channel: one sendFiles call with all files,
\* no pause, and up to MaxFaults late or altered re-deliveries.
NextFaulty ==
    \/ setEncryptionPipeline
    \/ sendFiles(MaxFiles)
    \/ \E t \in stasks : StartResume(t)
    \/ \E t \in stasks : StreamSend(t, FALSE)
    \/ \E t \in stasks : SendChunkResume(t)
    \/ \E tm \in timers : TimerFire(tm)
    \/ DeliverToSender
    \/ peerSetEncryptionPipeline
    \/ DeliverToPeer
    \/ \E m \in wire, intact \in BOOLEAN : RedeliverToPeer(m, intact)
    \/ \E t \in rtasks : DecryptResume(t)
    \/ \E t \in rtasks : ChunkDataResume(t)
    \/ \E t \in rtasks : ReconstructResume(t)

SpecFaulty == Init /\ [][NextFaulty]_vars

\* The same with a peer that may also send a chunk index out of range.
NextForged ==
    \/ NextFaulty
    \/ \E m \in wire, i \in 0..(MaxTotal + 1) : DeliverOutOfRange(m, i)

SpecForged == Init /\ [][NextForged]_vars

\* The engine on a reliable channel when the application submits all its
\* files in one sendFiles call, with pause(), resume(), encryption failures
\* and disconnection at any time.
NextOneCall ==
    \/ setEncryptionPipeline
    \/ sendFiles(MaxFiles)
    \/ pause
    \/ resume
    \/ \E t \in stasks : StartResume(t)
    \/ \E t \in stasks : StreamWake(t)
    \/ BufferDrain
    \/ \E t \in stasks, grow \in BOOLEAN : StreamSend(t, grow)
    \/ \E t \in stasks : SendChunkResume(t)
    \/ \E tm \in timers : TimerFire(tm)
    \/ DeliverToSender
    \/ peerSetEncryptionPipeline
    \/ DeliverToPeer
    \/ \E t \in rtasks : DecryptResume(t)
    \/ \E t \in rtasks : ChunkDataResume(t)
    \/ \E t \in rtasks : ReconstructResume(t)
    \/ disconnect
    \/ \E t \in stasks : StreamEncryptFails(t)
    \/ \E t \in stasks : SendChunkEncryptFails(t)

SpecOneCall == Init /\ [][NextOneCall]_vars

\* The same, for a session whose second file is the zero-byte file.
InitZeroByte == InitFiles(FileSizesZeroByteSecond)

SpecZeroByte == InitZeroByte /\ [][NextOneCall]_vars


\* Channel fault on a chunk in transit: the binary frame at the head of
\* toPeer is not delivered (lost), or is delivered with altered bytes.
FaultyDeliverToPeer(lost) ==
    /\ toPeer # <<>> /\ Head(toPeer).type = "binary"
    /\ faults < MaxFaults
    /\ faults' = faults + 1
    /\ toPeer' = Tail(toPeer)
    /\ IF lost
       THEN UNCHANGED <<receivingFiles, objs, awaitingChunkDataFor, rtasks>>
       ELSE handleDataChannelMessage([Head(toPeer) EXCEPT !.frame = Altered(@)])
    /\ UNCHANGED <<pages, sigvars, mode, fileSizes, svars, fromPeer, wire, lastTx, peerEncryptionPipeline,
                   fileReceived, lastStatus>>

\* The acknowledged variant on a channel that loses or corrupts up to
\* MaxFaults chunks, with the connection staying up: one sendFiles call,
\* pause() and resume() at any time.
NextLive ==
    \/ setEncryptionPipeline
    \/ sendFiles(MaxFiles)
    \/ pause
    \/ resume
    \/ \E t \in stasks : StartResume(t)
    \/ \E t \in stasks : SendChunkResume(t)
    \/ \E tm \in timers : TimerFire(tm)
    \/ DeliverToSender
    \/ peerSetEncryptionPipeline
    \/ DeliverToPeer
    \/ \E lost \in BOOLEAN : FaultyDeliverToPeer(lost)
    \/ \E t \in rtasks : DecryptResume(t)
    \/ \E t \in rtasks : ChunkDataResume(t)
    \/ \E t \in rtasks : ReconstructResume(t)

\* Every suspended call continues, every armed timer fires, every message
\* in flight is delivered, the peer sets up its pipeline, and a paused
\* transfer is resumed.
FairLive ==
    /\ WF_vars(resume)
    /\ WF_vars(\E t \in stasks : StartResume(t))
    /\ WF_vars(\E t \in stasks : SendChunkResume(t))
    /\ WF_vars(\E tm \in timers : TimerFire(tm))
    /\ WF_vars(DeliverToSender)
    /\ WF_vars(peerSetEncryptionPipeline)
    /\ WF_vars(DeliverToPeer)
    /\ WF_vars(\E t \in rtasks : DecryptResume(t))
    /\ WF_vars(\E t \in rtasks : ChunkDataResume(t))
    /\ WF_vars(\E t \in rtasks : ReconstructResume(t))

InitLive == InitFiles(FileSizesZeroByteSecond) /\ mode = "ack"

SpecLive == InitLive /\ [][NextLive]_vars /\ FairLive


\* The initiator's public-key handler when the transport has not opened the
\* channel yet: createDataChannel returns a channel whose readyState is
\* 'connecting', and setDataChannel stores it.
setDataChannelConnecting ==
    /\ ~encryptionPipeline
    /\ encryptionPipeline' = TRUE
    /\ dataChannel' = "connecting"
    /\ UNCHANGED <<pages, sigvars, mode, fileSizes, filesToSend, sendingFileState, isPaused,
                   stasks, timers, bufferedAmount, calls, cvars, rvars, lastStatus>>

\* The transport opens the channel (readyState 'open', onopen).
dataChannelOpens ==
    /\ dataChannel = "connecting"
    /\ dataChannel' = "open"
    /\ UNCHANGED <<pages, sigvars, mode, fileSizes, encryptionPipeline, filesToSend, sendingFileState,
                   isPaused, stasks, timers, bufferedAmount, calls, cvars, rvars, lastStatus>>

\* The engine from the creation of the data channel on: the page calls
\* sendFiles when the peer connection is connected, which may be before
\* the data channel is open.  Reliable channel, one sendFiles call.
NextConnecting ==
    \/ setDataChannelConnecting
    \/ dataChannelOpens
    \/ sendFiles(MaxFiles)
    \/ \E t \in stasks : StartResume(t)
    \/ \E t \in stasks : StreamSend(t, FALSE)
    \/ \E t \in stasks : SendChunkResume(t)
    \/ \E tm \in timers : TimerFire(tm)
    \/ DeliverToSender
    \/ peerSetEncryptionPipeline
    \/ DeliverToPeer
    \/ \E t \in rtasks : DecryptResume(t)
    \/ \E t \in rtasks : ChunkDataResume(t)
    \/ \E t \in rtasks : ReconstructResume(t)

SpecConnecting == Init /\ [][NextConnecting]_vars


\* The engine on a reliable channel when the application calls sendFiles
\* again, with one more file, at any time after its first call.
NextQueueing ==
    \/ setEncryptionPipeline
    \/ \E n \in 1..MaxFiles : sendFilesOf(n, MaxFiles + 1)
    \/ \E t \in stasks : StartResume(t)
    \/ \E t \in stasks : StreamSend(t, FALSE)
    \/ \E t \in stasks : SendChunkResume(t)
    \/ \E tm \in timers : TimerFire(tm)
    \/ DeliverToSender
    \/ peerSetEncryptionPipeline
    \/ DeliverToPeer
    \/ \E t \in rtasks : DecryptResume(t)
    \/ \E t \in rtasks : ChunkDataResume(t)
    \/ \E t \in rtasks : ReconstructResume(t)

SpecQueueing == Init /\ [][NextQueueing]_vars

\* ====================================================== SIGNALING SERVER

\* The members of a room's Set.
Members(room) == {room[k] : k \in 1..Len(room)}

\* Set.delete
Without(room, ws) == SelectSeq(room, LAMBDA c : c # ws)

\* client.send(JSON.stringify(m)); nothing reaches a socket that is not open.
SendTo(box, c, m) ==
    IF readyState[c] = "open" THEN [box EXCEPT ![c] = Append(@, m)] ELSE box

\* wss.on('connection')
connection(ws) ==
    /\ readyState[ws] = "idle"
    /\ readyState' = [readyState EXCEPT ![ws] = "open"]
    /\ outbox' = NothingSent
    /\ UNCHANGED <<rooms, wsRoomId, ftvars>>

\* handleJoinRoom with the size test off by one.
handleJoinRoomAdmitsThird(ws, providedRoomId, uuid) ==
    LET roomId == IF providedRoomId # NoRoom THEN providedRoomId ELSE uuid
        room == IF roomId \in DOMAIN rooms THEN rooms[roomId] ELSE <<>>
        joined == IF ws \in Members(room) THEN room ELSE Append(room, ws)
        box1 == SendTo(NothingSent, ws, Envelope("room-joined", roomId, FALSE))
        client == CHOOSE c \in Members(joined) : c # ws
        box2 == SendTo(box1, client, Envelope("peer-joined", NoRoom, TRUE))
        box3 == SendTo(box2, ws, Envelope("peer-joined", NoRoom, FALSE))
    IN
    IF Len(room) >= 3
    THEN /\ outbox' = SendTo(NothingSent, ws,
                              Envelope("error: Room is full", NoRoom, FALSE))
         /\ UNCHANGED <<rooms, wsRoomId>>
    ELSE /\ rooms' = [r \in DOMAIN rooms \cup {roomId} |->
                         IF r = roomId THEN joined ELSE rooms[r]]
         /\ wsRoomId' = [wsRoomId EXCEPT ![ws] = roomId]
         /\ outbox' = IF Len(joined) = 2 THEN box3 ELSE box1

\* handleJoinRoom(ws, providedRoomId); uuid is what uuidv4() returns when
\* no room id is provided.
handleJoinRoom(ws, providedRoomId, uuid) ==
    LET roomId == IF providedRoomId # NoRoom THEN providedRoomId ELSE uuid
        room == IF roomId \in DOMAIN rooms THEN rooms[roomId] ELSE <<>>
        joined == IF ws \in Members(room) THEN room ELSE Append(room, ws)
        box1 == SendTo(NothingSent, ws, Envelope("room-joined", roomId, FALSE))
        client == CHOOSE c \in Members(joined) : c # ws
        box2 == SendTo(box1, client, Envelope("peer-joined", NoRoom, TRUE))
        box3 == SendTo(box2, ws, Envelope("peer-joined", NoRoom, FALSE))
    IN
    IF Len(room) >= 2
    THEN /\ outbox' = SendTo(NothingSent, ws,
                              Envelope("error: Room is full", NoRoom, FALSE))
         /\ UNCHANGED <<rooms, wsRoomId>>
    ELSE /\ rooms' = [r \in DOMAIN rooms \cup {roomId} |->
                         IF r = roomId THEN joined ELSE rooms[r]]
         /\ wsRoomId' = [wsRoomId EXCEPT ![ws] = roomId]
         /\ outbox' = IF Len(joined) = 2 THEN box3 ELSE box1

\* relayMessage(senderWs, roomId, message)
relayMessage(senderWs, roomId, message) ==
    /\ outbox' = IF roomId \in DOMAIN rooms
                 THEN [c \in Conns |->
                          IF c \in Members(rooms[roomId]) /\ c # senderWs
                             /\ readyState[c] = "open"
                          THEN <<message>> ELSE <<>>]
                 ELSE NothingSent
    /\ UNCHANGED <<rooms, wsRoomId>>

RelayedTypes == {"offer", "answer", "ice-candidate", "public-key"}

\* ws.on('message'): a client message of the given type whose payload
\* names roomId (NoRoom: no payload or no roomId in it).
onMessage(ws, type, roomId, uuid) ==
    LET data == Envelope(type, roomId, FALSE) IN
    /\ readyState[ws] = "open"
    /\ IF type = "join-room" THEN handleJoinRoom(ws, roomId, uuid)
       ELSE IF type \in RelayedTypes THEN relayMessage(ws, roomId, data)
       ELSE outbox' = NothingSent /\ UNCHANGED <<rooms, wsRoomId>>
    /\ UNCHANGED <<readyState, ftvars>>

\* handleDisconnect(ws), called when readyState becomes state.
handleDisconnect(ws, state) ==
    LET roomId == wsRoomId[ws]
        readyNow == [readyState EXCEPT ![ws] = state]
        room == Without(rooms[roomId], ws)
    IN
    /\ readyState' = readyNow
    /\ IF roomId # NoRoom /\ roomId \in DOMAIN rooms
       THEN /\ outbox' = [c \in Conns |->
                            IF c \in Members(room) /\ readyNow[c] = "open"
                            THEN <<Envelope("peer-left", NoRoom, FALSE)>>
                            ELSE <<>>]
            /\ rooms' = IF Len(room) = 0
                        THEN [r \in DOMAIN rooms \ {roomId} |-> rooms[r]]
                        ELSE [rooms EXCEPT ![roomId] = room]
       ELSE outbox' = NothingSent /\ UNCHANGED rooms
    /\ UNCHANGED <<wsRoomId, ftvars>>

\* ws.on('error'): the socket fails; its 'close' event follows.
onError(ws) ==
    /\ readyState[ws] = "open"
    /\ handleDisconnect(ws, "errored")

\* ws.on('close'), of an open socket or after an error.
onClose(ws) ==
    /\ readyState[ws] \in {"open", "errored"}
    /\ handleDisconnect(ws, "closed")

\* The message types clients send here: join-room, one of the relayed
\* types (the switch handles the four alike) and one it does not know.
ClientTypes == {"join-room", "offer", "bye"}

NextServer ==
    \/ \E ws \in Conns : connection(ws) /\ UNCHANGED pages
    \/ \E ws \in Conns, type \in ClientTypes, roomId \in RoomIds :
          onMessage(ws, type, roomId, NoRoom) /\ UNCHANGED pages
    \/ \E ws \in Conns, type \in ClientTypes :
          /\ IF type = "join-room"
             THEN \E uuid \in RoomIds \ DOMAIN rooms : onMessage(ws, type, NoRoom, uuid)
             ELSE onMessage(ws, type, NoRoom, NoRoom)
          /\ UNCHANGED pages
    \/ \E ws \in Conns : onError(ws) /\ UNCHANGED pages
    \/ \E ws \in Conns : onClose(ws) /\ UNCHANGED pages

InitSignaling == InitFiles(FileSizes) /\ mode = "stream"

SpecServer == InitSignaling /\ [][NextServer]_vars


\* ============================================================== THE PAGE
\* The signaling side of FileTransferPage: the page of connection c opens
\* its socket, sends join-room once, and runs handleSignalingMessage on
\* every message the server sends it, in the order of arrival.  The handler
\* is an async function: a call runs to its next await, and calls for later
\* messages start while earlier ones are suspended.
\*   keyPair  "none" | "generating" (initialize() pending) | "ready"
\*   derived  "none" | "ok" | "early": deriveSharedSecret() was called with
\*            the local key pair ready, or before it was

\* ws.onmessage: what the server sent in this step is queued for the handler
\* of each page.
Received(ps, box) == [c \in Conns |-> [ps[c] EXCEPT !.inbox = @ \o box[c]]]

\* connectWebSocket: new WebSocket(SIGNALING_SERVER_URL).
connectWebSocket(c) == connection(c) /\ UNCHANGED pages

\* ws.onopen: sendMessage('join-room', ...) of handleStartSending (no roomId,
\* the server generates uuid) or handleStartReceiving (joinRoomId).
onOpenCallback(c, joinRoomId) ==
    /\ ~pages[c].joinSent
    /\ \E uuid \in (IF joinRoomId = NoRoom THEN RoomIds \ DOMAIN rooms ELSE {NoRoom}) :
          /\ onMessage(c, "join-room", joinRoomId, uuid)
          /\ pages' = Received([pages EXCEPT ![c].joinSent = TRUE], outbox')

\* handleSignalingMessage up to its first await, for the oldest message
\* waiting at page c.  peer-joined calls initialize() and suspends;
\* public-key calls deriveSharedSecret(); peer-left runs
\* handleCancelTransfer, which drops the modules, after which the handler
\* returns at once; the other types do not touch the key exchange.
handleSignalingMessage(c) ==
    /\ pages[c].inbox # <<>>
    /\ LET data == Head(pages[c].inbox)
           rest == [pages[c] EXCEPT !.inbox = Tail(@)]
       IN  pages' = [pages EXCEPT ![c] =
               CASE data.type = "peer-joined" ->
                        [rest EXCEPT !.keyPair = "generating"]
                 [] data.type = "public-key" ->
                        [rest EXCEPT !.derived =
                            IF pages[c].keyPair = "ready" THEN "ok" ELSE "early"]
                 [] data.type = "peer-left" ->
                        [NewPage EXCEPT !.joinSent = TRUE]
                 [] OTHER -> rest]
    /\ UNCHANGED <<sigvars, ftvars>>

\* initialize() settles: the peer-joined handler resumes and sends the
\* local public key with sendMessage, which is silent on a socket that is
\* not open and names the room of the render the handler closed over
\* (roomId || joinRoomId: the joined room, or none).
initializeSettles(c) ==
    /\ pages[c].keyPair = "generating"
    /\ IF readyState[c] = "open"
       THEN \E roomId \in {NoRoom, wsRoomId[c]} :
               /\ onMessage(c, "public-key", roomId, NoRoom)
               /\ pages' = Received([pages EXCEPT ![c].keyPair = "ready"], outbox')
       ELSE /\ pages' = [pages EXCEPT ![c].keyPair = "ready"]
            /\ UNCHANGED <<sigvars, ftvars>>

\* The socket of page c closes (ws.close() of handleCancelTransfer, or the
\* network): the server's close handler runs.
onSocketClose(c) ==
    /\ onClose(c)
    /\ pages' = Received(pages, outbox')

NextPage ==
    \/ \E c \in Conns : connectWebSocket(c)
    \/ \E c \in Conns, joinRoomId \in RoomIds \cup {NoRoom} :
          onOpenCallback(c, joinRoomId)
    \/ \E c \in Conns : handleSignalingMessage(c)
    \/ \E c \in Conns : initializeSettles(c)
    \/ \E c \in Conns : onSocketClose(c)

SpecPage == InitSignaling /\ [][NextPage]_vars


\* ================================================================ CLAIMS

\* ---- helpers for stating the claims

\* A file-received-ack for file f is put on the channel in this step.
FileAckSent(f) ==
    /\ Len(fromPeer') = Len(fromPeer) + 1
    /\ fromPeer'[Len(fromPeer')].type = "file-received-ack"
    /\ fromPeer'[Len(fromPeer')].fileId = f

\* onFileReceived is emitted for file f in this step (every emission is
\* paired with a file-received-ack).
FileReceivedEmitted(f) ==
    \/ \E e \in fileReceived' \ fileReceived : e.fileId = f
    \/ FileAckSent(f)

\* The ReceivingFileState objects allocated so far, as (file, generation).
Allocated == {fg \in FileIds \X (1..(MaxFaults + 1)) : fg[2] <= Len(objs[fg[1]])}

\* C1: every file exposed through onFileReceived is byte-identical to the
\* file passed to sendFiles under that file id (its chunks 0..N-1 in index
\* order), and its checksum is the fullFileChecksum declared in
\* file-metadata; in both variants, whatever the channel re-delivers.
C1_ReceivedIsIdentical ==
    \A e \in fileReceived :
        /\ e.blob = FileBytes(e.fileId)
        /\ calculateSHA256(e.blob) = FileMetadataMsg(e.fileId).checksum

C1_Witness ==
    /\ faults > 0
    /\ \E e \in fileReceived : e.fileId = 1 /\ Len(e.blob) = 2

C3_FirstWriteWins ==
    [][\A fg \in Allocated :
          LET old == objs[fg[1]][fg[2]]
              new == objs'[fg[1]][fg[2]]
          IN /\ \A k \in DOMAIN old.chunks :
                   old.chunks[k] # Null => new.chunks[k] = old.chunks[k]
             /\ new.receivedChunksCount - old.receivedChunksCount =
                   Cardinality({k \in DOMAIN old.chunks :
                                   old.chunks[k] = Null /\ new.chunks[k] # Null})]_vars

\* The same chunk was accepted twice: two equal chunk-acks are in flight,
\* and the slot and the count are those of a single delivery.
C3_Witness ==
    /\ \E j, k \in 1..Len(fromPeer) :
          j < k /\ fromPeer[j] = fromPeer[k] /\ fromPeer[j].type = "chunk-ack"
             /\ fromPeer[j].fileId = 1 /\ fromPeer[j].chunkIndex = 0
    /\ objs[1][1].chunks[1] = ChunkData(1, 0)
    /\ objs[1][1].receivedChunksCount = 1

\* A suspended receiver call that holds a chunk altered in transit:
\* decrypt() will return null, or (acknowledged variant) the SHA-256 of the
\* plaintext differs from the checksum of its chunk-metadata.
HoldsAlteredChunk(t) ==
    \/ t.kind = "decrypt" /\ decrypt(t.frame) = Null
    \/ t.kind = "handleChunkData" /\ calculateSHA256(t.data) # t.checksum

\* C4: the continuation that handles an altered chunk writes no slot,
\* increments no receivedChunksCount, sends no ack and exposes no file.
C4_AlteredChunkRejected ==
    [][\A t \in rtasks :
          (HoldsAlteredChunk(t) /\ t \notin rtasks') =>
              /\ objs' = objs
              /\ fromPeer' = fromPeer
              /\ fileReceived' = fileReceived]_vars

C4_Witness ==
    /\ lastStatus = "error: Decryption failed"
    /\ faults > 0

\* ---- queueing, ordering, pause and resume

\* A chunk (chunk-metadata and its binary frame) is put on the channel in
\* this step.
ChunkTransmitted == lastTx'.n = lastTx.n + 1

\* The application made sendFiles calls, the first one with two files or more.
TwoFilesInOneCall == calls # <<>> /\ calls[1] >= 2

\* The receiver has observed a message of file f: its file-metadata
\* allocated a state, or a chunk-metadata or a chunk of f is being handled.
PeerObserved(f) ==
    \/ Len(objs[f]) > 0
    \/ awaitingChunkDataFor # Null /\ awaitingChunkDataFor.fileId = f
    \/ \E t \in rtasks : t.fileId = f

\* C5 (receiver half): nothing of file 2 is on the channel or seen by the
\* receiver before file 1 is reconstructed and acknowledged.
C5_PeerSeesFileOneFirst ==
    (TwoFilesInOneCall /\ ((\E m \in wire : m.fileId = 2) \/ PeerObserved(2)))
        => \E e \in fileReceived : e.fileId = 1

\* C5: with two files queued by one sendFiles call, every message of file 1
\* (and the receiver's file-received-ack for it) precedes every message of
\* file 2 on the wire: the receiver sees nothing of file 2 before it has
\* acknowledged file 1, and no chunk of file 1 is transmitted once a message
\* of file 2 is on the wire.
C5_FileOneBeforeFileTwo ==
    [][TwoFilesInOneCall =>
          /\ C5_PeerSeesFileOneFirst'
          /\ (\E m \in wire : m.fileId = 2) =>
                ~(ChunkTransmitted /\ lastTx'.fileId = 1)]_vars

\* C6: at most one startNextFileTransfer / streamFile / sendChunk call is
\* in progress at any time: never two for different files, never two for
\* the same file.
C6_OneOutgoingTransferActive ==
    \A t1, t2 \in stasks : t1 = t2

\* C7: file ids are numbered in submission order; the file-metadata of a
\* file is on the wire only after the file-metadata of every file submitted
\* before it.
C7_MetadataInSubmissionOrder ==
    \A b \in FileIds :
        FileMetadataMsg(b) \in wire =>
            \A a \in 1..(b - 1) : FileMetadataMsg(a) \in wire

\* C8: acknowledged variant: every chunk of the current file that is put
\* on the channel is its lowest-index unacknowledged chunk; in particular
\* it is not acknowledged at that moment, also when its chunk-ack arrived
\* between resume() and the completion of the sendChunk that resume() started.
C8_ResumeSendsLowestUnacked ==
    [][(/\ mode = "ack"
        /\ ChunkTransmitted
        /\ sendingFileState.fileId = lastTx'.fileId)
       => /\ ~Acked(sendingFileState, lastTx'.chunkIndex)
          /\ lastTx'.chunkIndex = IndexOfFalse(sendingFileState.acknowledgedChunks)]_vars

\* The chunk indices of file f that have been put on the channel.
ChunksOnWire(f) == {i \in ChunkIdx : ChunkMetadataMsg(f, i) \in wire}

\* C9: streaming variant, one sendFiles call and any pause() / resume()
\* calls: every transmission sends the chunk whose index is sentChunksCount
\* of the file being sent and increments that count by one, so the indices
\* go 0, 1, ..., N-1, each once, and sentChunksCount is the number of
\* chunks transmitted so far.
C9_StreamInOrderOnce ==
    [][(mode = "stream" /\ Len(calls') <= 1) =>
          /\ ChunkTransmitted =>
                /\ sendingFileState.fileId = lastTx'.fileId
                /\ lastTx'.chunkIndex = sendingFileState.sentChunksCount
                /\ lastTx'.chunkIndex < TotalChunks(lastTx'.fileId)
                /\ sendingFileState' =
                      [sendingFileState EXCEPT !.sentChunksCount = @ + 1]
          /\ sendingFileState'.fileId # 0 =>
                {i \in ChunkIdx :
                    ChunkMetadataMsg(sendingFileState'.fileId, i) \in wire'} =
                    0..(sendingFileState'.sentChunksCount - 1)]_vars

\* The streaming loop of file 1 is held by pause() before chunk 1, with
\* chunk 0 transmitted and counted.
C9_Witness ==
    /\ mode = "stream" /\ Len(calls) = 1 /\ isPaused
    /\ STask("streamFile", 1, 1, "paused") \in stasks
    /\ sendingFileState.fileId = 1 /\ sendingFileState.sentChunksCount = 1
    /\ ChunksOnWire(1) = {0}

\* C10: between pause() and resume() no chunk-metadata and no binary frame
\* is put on the channel, in both variants.
C10_PauseFreezesProgress ==
    [][(isPaused /\ isPaused') => ~ChunkTransmitted]_vars

\* ---- disconnection

\* C11: acknowledged variant: once the connection is torn down no
\* retransmission timer is pending (so none can fire) and no chunk is put
\* on the channel.
C11_TimersCancelledOnTeardown ==
    [][(mode = "ack" /\ dataChannel' = "closed") =>
          /\ timers' = {}
          /\ ~ChunkTransmitted]_vars

\* C12: after the connection is torn down the engine has no active
\* outgoing transfer (no current file, no file-sending call in progress),
\* transmits no chunk, and holds no encryption pipeline.
C12_DisconnectAbortsTransfers ==
    [][dataChannel' = "closed" =>
          /\ sendingFileState'.fileId = 0
          /\ stasks' = {}
          /\ ~ChunkTransmitted
          /\ ~encryptionPipeline']_vars

\* ---- backpressure

FileMetadataHandled(f) == Len(objs'[f]) = Len(objs[f]) + 1

\* C14: the zero-byte file has totalChunks = 0; when the receiver handles
\* its file-metadata it starts the reconstruction of the file at once (a
\* reconstructFile call is in progress for it).
C14_ZeroByteReconstructed ==
    [][\A f \in FileIds :
          (FileSize(f) = 0 /\ FileMetadataHandled(f)) =>
              /\ FileMetadataMsg(f).totalChunks = 0
              /\ \E t \in rtasks' : t.kind = "reconstructFile" /\ t.fileId = f]_vars

\* ---- chunk slots

\* The current ReceivingFileState of file f has every declared slot filled.
AllSlotsFilled(f, rf, os) ==
    /\ rf[f] # 0
    /\ \A k \in 1..os[f][rf[f]].totalChunks :
          /\ k \in DOMAIN os[f][rf[f]].chunks
          /\ os[f][rf[f]].chunks[k] \notin {Null, Undefined}

\* C15: totalChunks is ceil(size / chunkSize) for every file; the slot
\* array of every ReceivingFileState has exactly totalChunks entries at all
\* times; and a reconstruction is attempted exactly when all entries are
\* filled: the step that makes the last entry filled (or allocates a state
\* with no entries) starts reconstructFile, and reconstructFile is started
\* by no other step.
C15_SlotsAndReconstruction ==
    [][/\ \A f \in FileIds :
             /\ TotalChunks(f) * chunkSize >= FileSize(f)
             /\ (TotalChunks(f) - 1) * chunkSize < FileSize(f)
             /\ FileMetadataMsg(f).totalChunks = TotalChunks(f)
       /\ \A fg \in Allocated' :
             Len(objs'[fg[1]][fg[2]].chunks) = objs'[fg[1]][fg[2]].totalChunks
       /\ \A f \in FileIds :
             /\ (AllSlotsFilled(f, receivingFiles, objs)' /\ objs'[f] # objs[f])
                   => \E t \in rtasks' : t.kind = "reconstructFile" /\ t.fileId = f
             /\ (\E t \in rtasks' \ rtasks : t.kind = "reconstructFile" /\ t.fileId = f)
                   => AllSlotsFilled(f, receivingFiles, objs)']_vars

\* ---- encryption failure

\* C16: when encrypt() returns null (the error status is reported) the
\* connection is closed, in both variants, and while that status stands no
\* chunk-metadata and no frame is put on the channel.
C16_EncryptFailureAbortsConnection ==
    [][/\ lastStatus' = "error: Encryption failed" => dataChannel' = "closed"
       /\ lastStatus = "error: Encryption failed" => ~ChunkTransmitted]_vars

\* C16 restricted to the streaming variant.
C16_StreamingOnly ==
    [][mode = "stream" =>
          /\ lastStatus' = "error: Encryption failed" => dataChannel' = "closed"
          /\ lastStatus = "error: Encryption failed" => ~ChunkTransmitted]_vars

\* ---- whole-file checksum mismatch

\* A suspended reconstructFile call whose blob does not have the declared
\* whole-file checksum.
HoldsMismatchedFile(t) ==
    /\ t.kind = "reconstructFile"
    /\ calculateSHA256(t.data) # objs[t.fileId][t.gen].fullFileChecksum

\* C17: when reconstructFile finds a whole-file checksum mismatch it
\* reports the error for the file and removes the file's entry from
\* receivingFiles (the IncomingTransfer is discarded).
C17_MismatchDiscardsFile ==
    [][\A t \in rtasks :
          (HoldsMismatchedFile(t) /\ t \notin rtasks') =>
              /\ lastStatus' = "error: Final file checksum mismatch"
              /\ receivingFiles'[t.fileId] = 0]_vars

\* ---- retransmission (acknowledged variant)

\* The setTimeout callback of timer tm runs in this step.
TimerFired(tm) ==
    /\ tm \in timers
    /\ timers' = timers \ {tm}
    /\ UNCHANGED <<sendingFileState, isPaused, cvars>>

\* The sender handles, in this step, a chunk-ack for chunk i of the file it
\* is sending.
ChunkAckHandled(i) ==
    /\ mode = "ack"
    /\ fromPeer # <<>>
    /\ fromPeer' = Tail(fromPeer)
    /\ dataChannel' = dataChannel
    /\ Head(fromPeer).type = "chunk-ack"
    /\ Head(fromPeer).chunkIndex = i
    /\ Head(fromPeer).fileId = sendingFileState.fileId

\* Every chunk put on the channel has a pending retransmission timer.
C18_TimerArmedOnSend ==
    [][(mode = "ack" /\ ChunkTransmitted) =>
          \E tm \in timers' : /\ tm.fileId = lastTx'.fileId
                              /\ tm.chunkIndex = lastTx'.chunkIndex]_vars

\* A timer that fires for an unacknowledged chunk of the file being sent,
\* while not paused, starts sendChunk of exactly that chunk.
C18_FireResendsSameChunk ==
    [][\A tm \in timers :
          (/\ mode = "ack"
           /\ TimerFired(tm)
           /\ sendingFileState.fileId = tm.fileId
           /\ ~isPaused
           /\ ~Acked(sendingFileState, tm.chunkIndex))
          => stasks' = stasks \cup {STask("sendChunk", tm.fileId, tm.chunkIndex, "encrypt")}]_vars

\* Handling the chunk-ack of chunk i leaves no timer of chunk i pending.
C18_AckCancelsTimer ==
    [][\A i \in ChunkIdx :
          ChunkAckHandled(i) =>
              ~\E tm \in timers' : /\ tm.fileId = sendingFileState.fileId
                                   /\ tm.chunkIndex = i]_vars

\* An acknowledged chunk of the file being sent is not put on the channel
\* again.
C18_AckedNotResent ==
    [][(/\ mode = "ack"
        /\ ChunkTransmitted
        /\ sendingFileState.fileId = lastTx'.fileId)
       => ~Acked(sendingFileState, lastTx'.chunkIndex)]_vars

\* C18: acknowledged variant: every chunk put on the channel has a pending
\* retransmission timer; a timer firing for an unacknowledged chunk of the
\* active, unpaused file re-sends exactly that chunk; and once a chunk is
\* acknowledged no timer of it stays pending and it is not put on the
\* channel again.
C18_Retransmission ==
    /\ C18_TimerArmedOnSend
    /\ C18_FireResendsSameChunk
    /\ C18_AckCancelsTimer
    /\ C18_AckedNotResent

\* ---- stop-and-wait (acknowledged variant)

\* The sendChunk calls started in this step.
SendChunkStarted == {t \in stasks' \ stasks : t.kind = "sendChunk"}

\* resume() is called in this step.
Resumed == isPaused /\ ~isPaused'

ChunkAckSent(f, i) ==
    /\ Len(fromPeer') = Len(fromPeer) + 1
    /\ fromPeer'[Len(fromPeer')].type = "chunk-ack"
    /\ fromPeer'[Len(fromPeer')].fileId = f
    /\ fromPeer'[Len(fromPeer')].chunkIndex = i

\* A suspended handleChunkData call whose plaintext came out of a
\* successful decrypt() and has the checksum of its chunk-metadata.
HoldsVerifiedChunk(t) ==
    /\ t.kind = "handleChunkData"
    /\ t.data = decrypt(t.frame) /\ t.data # Null
    /\ calculateSHA256(t.data) = t.checksum

\* C20: acknowledged variant: a chunk-ack for (fileId, chunkIndex) is sent
\* only by the continuation of a handleChunkData call whose frame decrypted
\* and whose plaintext has the checksum of its chunk-metadata; the
\* continuation that handles a decryption failure or a checksum mismatch
\* sends no chunk-ack and leaves every receiving state unchanged; and a
\* verified chunk is acknowledged also when its slot is already filled.
C20_AckOnlyVerifiedChunks ==
    [][mode = "ack" =>
          /\ \A f \in FileIds, i \in ChunkIdx :
                ChunkAckSent(f, i) =>
                    \E t \in rtasks \ rtasks' :
                        HoldsVerifiedChunk(t) /\ t.fileId = f /\ t.chunkIndex = i
          /\ \A t \in rtasks \ rtasks' :
                HoldsAlteredChunk(t) =>
                    /\ Len(fromPeer') <= Len(fromPeer)
                    /\ objs' = objs /\ receivingFiles' = receivingFiles
          /\ \A t \in rtasks \ rtasks' :
                HoldsVerifiedChunk(t) => ChunkAckSent(t.fileId, t.chunkIndex)]_vars

\* A chunk whose plaintext did not have the checksum of its chunk-metadata
\* was handled, after chunk 0 of the file was accepted.
C20_Witness ==
    /\ mode = "ack"
    /\ lastStatus = "error: Checksum mismatch for chunk"
    /\ objs[1][1].chunks[1] = ChunkData(1, 0)

\* ---- completion of a file

\* The sender handles, in this step, the file-received-ack of the file it
\* is sending: onFileSent is emitted for file f.
FileSentEmitted(f) ==
    /\ fromPeer # <<>>
    /\ fromPeer' = Tail(fromPeer)
    /\ dataChannel' = dataChannel
    /\ Head(fromPeer).type = "file-received-ack"
    /\ Head(fromPeer).fileId = f
    /\ sendingFileState.fileId = f

\* onFileSent was emitted for file f of a single sendFiles call, and the
\* sender has not yet gone further than starting the next file.
FileSentJustEmitted(f) ==
    /\ \E e \in fileReceived : e.fileId = f
    /\ \/ \E t \in stasks : t.kind = "startNextFileTransfer" /\ t.fileId = f + 1
       \/ /\ sendingFileState.fileId = 0
          /\ lastStatus = "success: All files have been sent"

\* The transmissions of the behaviour are used up.
TxExhausted == lastTx.n = MaxTx

\* C21: acknowledged variant, on a channel that loses or corrupts finitely
\* many chunks, connection up, never paused forever: every file that
\* becomes the active transfer is eventually reconstructed by the receiver
\* and reported by onFileSent.
C21_ActiveFileEventuallySent ==
    \A f \in FileIds :
        (sendingFileState.fileId = f) ~> (FileSentJustEmitted(f) \/ TxExhausted)

\* Files 1..n have been submitted by the sendFiles calls so far.
SubmittedFiles == 1..Submitted(calls)

\* C22: handling the file-received-ack of the active file starts the next
\* queued file at once, or, with an empty queue, clears the active
\* transfer and emits 'All files have been sent successfully!'; that
\* terminal status is emitted only when the peer has received and
\* acknowledged every file submitted so far.
C22_AckStartsNextOrTerminates ==
    [][\A f \in FileIds :
          FileSentEmitted(f) =>
              IF filesToSend # <<>>
              THEN /\ STask("startNextFileTransfer", Head(filesToSend), 0, "checksum") \in stasks'
                   /\ filesToSend' = Tail(filesToSend)
                   /\ lastStatus' = "success: Peer confirmed receipt"
              ELSE /\ sendingFileState' = NoState
                   /\ lastStatus' = "success: All files have been sent"
                   /\ \A g \in SubmittedFiles : \E e \in fileReceived : e.fileId = g]_vars

\* ---- the chunk context of the receiver

\* The message at the head of toPeer is delivered to the receiver in this
\* step, unaltered.
HeadDeliveredToPeer ==
    /\ toPeer # <<>>
    /\ toPeer' = Tail(toPeer)
    /\ faults' = faults

PutOnChannel ==
    IF Len(toPeer') > Len(toPeer) /\ SubSeq(toPeer', 1, Len(toPeer)) = toPeer
    THEN SubSeq(toPeer', Len(toPeer) + 1, Len(toPeer'))
    ELSE <<>>

\* C24: every binary frame the sender puts on the channel directly follows
\* the chunk-metadata of the same file and chunk index, and the
\* file-metadata of a file is put on the channel once, before any
\* chunk-metadata of that file.
C24_WireOrder ==
    [][LET put == PutOnChannel IN
       \A k \in 1..Len(put) :
          /\ put[k].type = "binary" =>
                /\ k > 1
                /\ put[k - 1].type = "chunk-metadata"
                /\ put[k - 1].fileId = put[k].fileId
                /\ put[k - 1].chunkIndex = put[k].chunkIndex
          /\ put[k].type = "file-metadata" =>
                ~\E m \in wire : m.type = "file-metadata" /\ m.fileId = put[k].fileId
          /\ put[k].type = "chunk-metadata" =>
                \E m \in wire : m.type = "file-metadata" /\ m.fileId = put[k].fileId]_vars

\* ---- what the application is told

\* The onStatusUpdate events of type 'error'.
ErrorStatus ==
    {"error: Encryption is not set up", "error: Encryption failed",
     "error: Decryption failed", "error: Checksum mismatch for chunk",
     "error: File reconstruction failed: missing chunks",
     "error: Final file checksum mismatch"}

\* C25: the continuation that handles a chunk whose decryption fails or
\* whose checksum does not match emits no onStatusUpdate event of type
\* 'error'.
C25_ChunkErrorsNotSurfaced ==
    [][\A t \in rtasks \ rtasks' :
          HoldsAlteredChunk(t) => (lastStatus' = lastStatus \/ lastStatus' \notin ErrorStatus)]_vars

\* ---- stale timers (acknowledged variant)

\* File f of a single sendFiles call is no longer the transfer in
\* progress: its file-received-ack was handled, or another file has
\* replaced it as sendingFileState.
NoLongerActive(f) ==
    /\ FileMetadataMsg(f) \in wire
    /\ \/ sendingFileState.fileId # f
       \/ \E t \in stasks : t.kind = "startNextFileTransfer" /\ t.fileId = f + 1

\* A timer that fires for a file that is no longer active starts no
\* sendChunk, and no chunk of such a file is put on the channel.
C26_NoResendAfterFinish ==
    [][mode = "ack" =>
          /\ \A tm \in timers :
                (TimerFired(tm) /\ NoLongerActive(tm.fileId)) => stasks' = stasks
          /\ \A f \in FileIds :
                (ChunkTransmitted /\ lastTx'.fileId = f) => ~NoLongerActive(f)]_vars

\* While the transfer is paused no retransmission timer of the active file
\* is pending.
C26_NoTimerWhilePaused ==
    (mode = "ack" /\ isPaused) =>
        ~\E tm \in timers : tm.fileId = sendingFileState.fileId

\* C26: acknowledged variant: once a file is no longer the active transfer
\* no timer armed for it makes one of its chunks be sent again, and while
\* the transfer is paused no retransmission timer of the active file is
\* pending.
C26_StaleTimersAreHarmless ==
    /\ C26_NoResendAfterFinish
    /\ []C26_NoTimerWhilePaused

\* ---- signaling server

RoomIsFull == Envelope("error: Room is full", NoRoom, FALSE)

\* Some connection is sent a peer-joined message by this step.
PeerJoinedSent ==
    \E c \in Conns : \E k \in 1..Len(outbox'[c]) : outbox'[c][k].type = "peer-joined"

\* C27: every room has at most two members, and a join-room naming a room
\* that already has two members is answered with the error 'Room is full'
\* and with nothing else, leaves every room's membership and every
\* connection's roomId as they were, and sends no peer-joined to anyone.
C27_RoomsHoldTwo ==
    /\ [](\A r \in DOMAIN rooms : Cardinality(Members(rooms[r])) <= 2)
    /\ [][\A r \in DOMAIN rooms :
             Len(rooms[r]) = 2 =>
                \A ws \in Conns :
                   onMessage(ws, "join-room", r, NoRoom) =>
                      /\ outbox'[ws] = <<RoomIsFull>>
                      /\ rooms' = rooms
                      /\ wsRoomId' = wsRoomId
                      /\ ~PeerJoinedSent]_vars

C27_Witness ==
    \E ws \in Conns, r \in DOMAIN rooms :
        /\ Len(rooms[r]) = 2
        /\ ws \notin Members(rooms[r])
        /\ wsRoomId[ws] = NoRoom
        /\ outbox[ws] = <<RoomIsFull>>

PeerJoined(initiator) == Envelope("peer-joined", NoRoom, initiator)

\* The messages of sequence q, as a set.
SentSet(q) == {q[k] : k \in 1..Len(q)}

\* The join-room of connection ws makes room r reach two members.
JoinFills(ws, r) ==
    /\ onMessage(ws, "join-room", r, NoRoom)
    /\ r \in DOMAIN rooms
    /\ Len(rooms[r]) = 1
    /\ ws \notin Members(rooms[r])

\* C28: when a join-room makes a room reach two members, the joining
\* (second) peer is sent peer-joined with initiator = true and the
\* first-joined peer, if its socket is open, peer-joined with
\* initiator = false.
C28_SecondJoinerInitiates ==
    [][\A ws \in Conns, r \in RoomIds :
          JoinFills(ws, r) =>
             LET first == rooms[r][1] IN
             /\ PeerJoined(TRUE) \in SentSet(outbox'[ws])
             /\ PeerJoined(FALSE) \notin SentSet(outbox'[ws])
             /\ readyState[first] = "open" =>
                   outbox'[first] = <<PeerJoined(FALSE)>>]_vars

\* What the code does instead: initiator = true goes to the first-joined
\* peer and initiator = false to the peer whose join filled the room.
C28_FirstJoinerInitiates ==
    [][\A ws \in Conns, r \in RoomIds :
          JoinFills(ws, r) =>
             LET first == rooms[r][1] IN
             /\ outbox'[ws] = <<Envelope("room-joined", r, FALSE), PeerJoined(FALSE)>>
             /\ readyState[first] = "open" =>
                   outbox'[first] = <<PeerJoined(TRUE)>>]_vars

\* Connection ws is a member of a room whose two members are both
\* connected.
BothPresent(ws) ==
    /\ wsRoomId[ws] \in DOMAIN rooms
    /\ ws \in Members(rooms[wsRoomId[ws]])
    /\ Len(rooms[wsRoomId[ws]]) = 2
    /\ \A c \in Members(rooms[wsRoomId[ws]]) : readyState[c] = "open"

\* The other member of the room of ws.
OtherMember(ws) == CHOOSE c \in Members(rooms[wsRoomId[ws]]) : c # ws

\* C29: a message of a relayed type sent by a room member while both
\* members are present is appended, unchanged, to what is sent to the other
\* member (so in the order the server received it) and nothing is sent
\* back to the sender; a message of a type that is neither relayed nor
\* join-room makes the server send nothing to anyone.
C29_RelayToOtherMember ==
    [][\A ws \in Conns, roomId \in RoomIds \cup {NoRoom} :
          /\ \A type \in RelayedTypes :
                (onMessage(ws, type, roomId, NoRoom) /\ BothPresent(ws)) =>
                   /\ outbox'[OtherMember(ws)] = <<Envelope(type, roomId, FALSE)>>
                   /\ outbox'[ws] = <<>>
          /\ onMessage(ws, "bye", roomId, NoRoom) => outbox' = NothingSent]_vars

\* The same, for the messages whose payload names the sender's own room.
C29_RelayWhenRoomNamed ==
    [][\A ws \in Conns, type \in RelayedTypes :
          (onMessage(ws, type, wsRoomId[ws], NoRoom) /\ BothPresent(ws)) =>
             /\ outbox'[OtherMember(ws)] = <<Envelope(type, wsRoomId[ws], FALSE)>>
             /\ outbox'[ws] = <<>>
             /\ \A c \in Conns \ {OtherMember(ws)} : outbox'[c] = <<>>]_vars

PeerLeft == Envelope("peer-left", NoRoom, FALSE)

\* The socket of connection ws closes or fails in this step.
Disconnects(ws) == onClose(ws) \/ onError(ws)

\* After this step connection ws is no member of room r, every connected
\* member that remains has been sent peer-left, and the room is gone from
\* the map if ws was its only member.
LeavesRoom(ws, r) ==
    IF Members(rooms[r]) = {ws}
    THEN r \notin DOMAIN rooms'
    ELSE /\ r \in DOMAIN rooms'
         /\ Members(rooms'[r]) = Members(rooms[r]) \ {ws}
         /\ \A c \in Members(rooms'[r]) :
               readyState'[c] = "open" => outbox'[c] = <<PeerLeft>>

\* C30: no room of the rooms map has zero members, and when a connection
\* that is a member of a room disconnects (close or error) it is removed
\* from that room, the remaining connected member is sent peer-left, and
\* the room is deleted if it became empty.
C30_DisconnectLeavesRoom ==
    /\ [](\A r \in DOMAIN rooms : Len(rooms[r]) > 0)
    /\ [][\A ws \in Conns, r \in DOMAIN rooms :
             (Disconnects(ws) /\ ws \in Members(rooms[r])) => LeavesRoom(ws, r)]_vars

\* The same, for the room the connection joined last (ws.roomId) only.
C30_DisconnectLeavesLastRoom ==
    /\ [](\A r \in DOMAIN rooms : Len(rooms[r]) > 0)
    /\ [][\A ws \in Conns :
             (Disconnects(ws) /\ wsRoomId[ws] \in DOMAIN rooms
                 /\ ws \in Members(rooms[wsRoomId[ws]])) =>
                LeavesRoom(ws, wsRoomId[ws])]_vars

\* ---- retransmission on request

\* This step puts on the channel to the sender a message that names chunk
\* i of file f and is not an acknowledgement: a re-transmission request.
RetransmissionRequested(f, i) ==
    /\ Len(fromPeer') = Len(fromPeer) + 1
    /\ fromPeer'[Len(fromPeer')].type \notin {"chunk-ack", "file-received-ack"}
    /\ fromPeer'[Len(fromPeer')].fileId = f
    /\ fromPeer'[Len(fromPeer')].chunkIndex = i

\* C31: the receiver's continuation that finds a chunk corrupted (its
\* decryption fails or its checksum does not match) requests the
\* re-transmission of that chunk from the sender.
C31_ReceiverRequestsChunks ==
    [][\A t \in rtasks \ rtasks' :
          HoldsAlteredChunk(t) => RetransmissionRequested(t.fileId, t.chunkIndex)]_vars

\* ---- key before data

\* C32: sendFiles called while no encryption pipeline is set emits the
\* error status 'Encryption is not set up. Cannot send files.' and leaves
\* the pending queue, the active transfer, the suspended calls and the
\* channel as they were; nothing is on the channel while no pipeline is
\* set; and the data channel exists only once the pipeline is set (the
\* page creates it after deriveSharedSecret has completed).
C32_NoDataBeforeKey ==
    /\ [](~encryptionPipeline => (dataChannel = "null" /\ wire = {} /\ toPeer = <<>>))
    /\ [][\A n \in 1..MaxFiles :
             (~encryptionPipeline /\ sendFiles(n)) =>
                /\ lastStatus' = "error: Encryption is not set up"
                /\ filesToSend' = filesToSend
                /\ sendingFileState' = sendingFileState
                /\ stasks' = stasks
                /\ calls' = calls
                /\ toPeer' = toPeer /\ wire' = wire]_vars

C32_Witness ==
    /\ ~encryptionPipeline
    /\ lastStatus = "error: Encryption is not set up"
    /\ filesToSend = <<>> /\ sendingFileState = NoState /\ stasks = {}
    /\ wire = {}

\* ---- exactly-once events

\* C33: for each file id the receiver emits onFileReceived and sends
\* file-received-ack at most once: no step emits them for a file that has
\* already been exposed through onFileReceived.
C33_FileReceivedOnce ==
    [][\A f \in FileIds :
          FileAckSent(f) => \A e \in fileReceived : e.fileId # f]_vars

\* The sender handles, in this step, a file-received-ack for a file that
\* is not the one it is sending.
StaleFileAckHandled ==
    /\ fromPeer # <<>>
    /\ fromPeer' = Tail(fromPeer)
    /\ dataChannel' = dataChannel
    /\ Head(fromPeer).type = "file-received-ack"
    /\ Head(fromPeer).fileId # sendingFileState.fileId

\* A startNextFileTransfer call is suspended at its awaits.  With a single
\* sendFiles call and a file being sent, it is the call made when the
\* file-received-ack of that file was handled.
NextFileStarting == \E t \in stasks : t.kind = "startNextFileTransfer"

\* C34: with one sendFiles call, onFileSent is emitted for a file only the
\* first time its file-received-ack is handled: never while the
\* startNextFileTransfer call made by that first handling is still
\* suspended; and a file-received-ack for a file that is not the active
\* one leaves the queue, the active transfer, the suspended calls, the
\* timers and the status unchanged.
C34_FileSentOnce ==
    [][/\ \A f \in FileIds : FileSentEmitted(f) => ~NextFileStarting
       /\ StaleFileAckHandled =>
             /\ filesToSend' = filesToSend
             /\ sendingFileState' = sendingFileState
             /\ stasks' = stasks
             /\ timers' = timers
             /\ lastStatus' = lastStatus]_vars

\* ---- the queue of pending files

\* C35: a sendFiles call made while a transfer is active appends its files
\* behind the files that are still pending from earlier calls.
C35_PendingFilesKept ==
    [][\A n \in 1..MaxFiles :
          (/\ encryptionPipeline
           /\ sendingFileState.fileId # 0
           /\ sendFilesOf(n, MaxFiles + 1)) =>
             filesToSend' = filesToSend \o [k \in 1..n |-> Submitted(calls) + k]]_vars

\* The same, for the calls made while no file is pending.
C35_KeptWhenNonePending ==
    [][\A n \in 1..MaxFiles :
          (/\ encryptionPipeline
           /\ sendingFileState.fileId # 0
           /\ filesToSend = <<>>
           /\ sendFilesOf(n, MaxFiles + 1)) =>
             filesToSend' = filesToSend \o [k \in 1..n |-> Submitted(calls) + k]]_vars

\* ---- counting the received chunks

\* The slots of fileState that hold a chunk.
NonEmptySlots(fileState) ==
    {k \in DOMAIN fileState.chunks : fileState.chunks[k] \notin {Null, Undefined}}

\* C36: for every ReceivingFileState, receivedChunksCount is the number of
\* its non-empty slots and lies between 0 and totalChunks; a step leaves
\* the count as it is or increases it by one, and it increases it exactly
\* when it fills one empty slot.
C36_CountMatchesSlots ==
    /\ [](\A fg \in Allocated :
             LET fileState == objs[fg[1]][fg[2]] IN
             /\ fileState.receivedChunksCount = Cardinality(NonEmptySlots(fileState))
             /\ fileState.receivedChunksCount >= 0
             /\ fileState.receivedChunksCount <= fileState.totalChunks)
    /\ [][\A fg \in Allocated :
             LET old == objs[fg[1]][fg[2]]
                 new == objs'[fg[1]][fg[2]]
                 filled == NonEmptySlots(new) \ NonEmptySlots(old)
             IN /\ new.receivedChunksCount - old.receivedChunksCount = Cardinality(filled)
                /\ Cardinality(filled) <= 1
                /\ NonEmptySlots(old) \subseteq NonEmptySlots(new)]_vars

\* ---- file-metadata delivered again

\* The ReceivingFileState the receivingFiles map rf holds for file f.
Current(f, rf, os) == os[f][rf[f]]

\* C37: as long as file f has an entry in receivingFiles, no step (in
\* particular no second delivery of its file-metadata) empties a filled
\* slot of that entry or lowers its receivedChunksCount.
C37_MetadataKeepsSlots ==
    [][\A f \in FileIds :
          (receivingFiles[f] # 0 /\ receivingFiles'[f] # 0) =>
             LET old == Current(f, receivingFiles, objs)
                 new == Current(f, receivingFiles', objs')
             IN /\ NonEmptySlots(old) \subseteq NonEmptySlots(new)
                /\ new.receivedChunksCount >= old.receivedChunksCount]_vars

\* ---- signaling server: membership and isolation

\* The rooms connection ws is a member of.
RoomsOf(ws) == {r \in DOMAIN rooms : ws \in Members(rooms[r])}

\* C38: every connection is a member of at most one room, that room is
\* the one recorded in its roomId, and a connection that has disconnected
\* (error or close) is a member of no room.
C38_MembershipConsistent ==
    \A ws \in Conns :
        /\ Cardinality(RoomsOf(ws)) <= 1
        /\ \A r \in RoomsOf(ws) : wsRoomId[ws] = r
        /\ readyState[ws] \in {"errored", "closed"} => RoomsOf(ws) = {}

\* C39: handling a message of a relayed type delivers it only to
\* connections that share a room with the sending connection: naming a
\* room in the payload delivers nothing to the members of a room the
\* sender is not a member of.
C39_RelayStaysInSendersRoom ==
    [][\A ws \in Conns, roomId \in RoomIds, type \in RelayedTypes :
          onMessage(ws, type, roomId, NoRoom) =>
             \A c \in Conns :
                outbox'[c] # <<>> => \E r \in RoomsOf(ws) : c \in Members(rooms[r])]_vars

\* ---- C40: in the page's signaling handler deriveSharedSecret(peerPublicKey)
\* is invoked only after the local initialize() started by peer-joined has
\* completed, under every interleaving of the suspended peer-joined handler
\* with a public-key message arriving from the peer.
C40_DeriveAfterInitialize ==
    \A c \in Conns : pages[c].derived # "early"

====
